---- MODULE Spec2Model ----
(***************************************************************************)
(* Camera acquisition engine of the Arducam controllers.                   *)
(*                                                                         *)
(* The module models the controller objects of src/arducam_controller.py   *)
(* (ArducamController), src/robust_arducam.py (RobustArducamController)    *)
(* and src/true_color_arducam.py (TrueColorArducamController): their       *)
(* fields, the caller thread that runs connect / start_capture / stop,     *)
(* the daemon threads that run _capture_loop, and a consumer thread that   *)
(* polls get_frame().  The device (cv2.VideoCapture) is the environment:   *)
(* every read either delivers the next frame, fails, raises, or stays in   *)
(* flight for an arbitrary time.                                           *)
(***************************************************************************)
EXTENDS Integers, Sequences, FiniteSets, TLC

(* ------------------------------ bounds -------------------------------- *)
\* capture threads of an ArducamController that may be alive at the same time
MaxThreads == 2
\* frames the device delivers before every further read fails
MaxFrames == 2

\* release() calls followed on one handle object
MaxReleases == 2
\* consecutive_failures is followed up to this value
MaxStreak == 11
\* callers of get_frame() that hold a returned frame
MaxReaders == 2
\* numpy arrays alive at the same time
MaxObjects == 4
\* calls of one operation made on one controller
MaxCalls == 2
\* the largest focus value the lens of the device can take
MaxDeviceFocus == 200
\* CameraConfig.manual_focus
manual_focus == 100

(* ------------------------- program constants -------------------------- *)
\* CameraConfig.max_retries
max_retries == 3
\* max_failures of _capture_loop
max_failures == 10

\* Python's None, for a thread reference
None == 0
\* frame_lock owner: nobody
Unlocked == 0
\* frame_lock owner: the thread inside get_frame()
Reader == -1

Threads == 1..MaxThreads

\* the value of current_frame before the first publish
NoFrame == [seq |-> 0, fmt |-> "none"]

\* self.cap = None
NoHandle == [obj |-> FALSE, open |-> FALSE, rel |-> 0]

\* a cv2.VideoCapture object: isOpened(), and the release() calls made on it
Handle(open, rel) == [obj |-> TRUE, open |-> open, rel |-> rel]

VARIABLES
    ctl,            \* the controller class under execution
    cap,            \* self.cap: NoHandle or the VideoCapture object it refers to
    is_running,     \* self.is_running
    current_frame,  \* self.current_frame
    frame_lock,     \* owner of self.frame_lock
    capture_thread, \* self.capture_thread: None or a thread
    force_color,    \* self.force_color (TrueColorArducamController)
    thr,            \* thread -> position and locals of its _capture_loop
    caller,         \* position of the thread calling connect/start/stop
    reader,         \* position and last result of the get_frame() consumer
    devseq,         \* number of frames the device has delivered
    devfmt,         \* pixel layout of the frames the device delivers
    hist,           \* history: latest publish, how the last loop ended, stop() calls,
                    \* frames the device had delivered at the last disconnect()
    heap,           \* frame objects (numpy arrays) and the references held to them
    nego,           \* a connect() call of a negotiating controller, and its device
    cls,            \* a frame handed to the colour tests, and their verdicts
    focus           \* a set_focus() call and the device's focus property

\* the fields and threads of a capturing controller
engine == <<ctl, cap, is_running, current_frame, frame_lock, capture_thread,
            force_color, thr, caller, reader, devseq, devfmt, hist>>

\* the state of the operations that are followed on their own
aux == <<heap, nego, cls, focus>>

vars == <<ctl, cap, is_running, current_frame, frame_lock, capture_thread,
          force_color, thr, caller, reader, devseq, devfmt, hist,
          heap, nego, cls, focus>>

\* the value of a variable whose operation is not under execution
Unused == [pc |-> "unused"]

(* ------------------------------ helpers ------------------------------- *)
\* a thread object that does not run: never started, or its loop has returned
Dead == [pc |-> "dead", frame |-> NoFrame, fails |-> 0, run |-> 0]

\* a thread object right after start()
Spawned == [pc |-> "loop", frame |-> NoFrame, fails |-> 0, run |-> 0]

\* Thread.is_alive()
Alive(t) == thr[t].pc # "dead"

\* no thread is inside _capture_loop
NoLoopAlive == \A t \in Threads : ~Alive(t)

\* a thread slot no live thread occupies
FreeSlots == {t \in Threads : ~Alive(t)}

Min(S) == CHOOSE x \in S : \A y \in S : x <= y

\* "self.cap and self.cap.isOpened()"
CapOpen == cap.obj /\ cap.open

\* cap.release() on a handle object
Released(c) == [c EXCEPT !.open = FALSE, !.rel = @ + 1]

IdleCaller == [pc |-> "idle", op |-> "none", attempt |-> 0]

(* ------------------------------- Init --------------------------------- *)
InitFields ==
    /\ cap = NoHandle
    /\ is_running = FALSE
    /\ current_frame = NoFrame
    /\ frame_lock = Unlocked
    /\ capture_thread = None
    /\ thr = [t \in Threads |-> Dead]
    /\ caller = IdleCaller
    /\ reader = [pc |-> "idle", present |-> FALSE, frame |-> NoFrame]
    /\ devseq = 0
    /\ hist = [published |-> NoFrame, ended |-> "no", stopped |-> FALSE, cut |-> 0]
    /\ heap = Unused
    /\ nego = Unused
    /\ cls = Unused
    /\ focus = Unused

\* the fields of a controller of class c right after construction
Constructed(c) ==
    /\ ctl = c
    /\ cap = NoHandle
    /\ is_running = FALSE
    /\ current_frame = NoFrame
    /\ frame_lock = Unlocked
    /\ capture_thread = None
    /\ force_color = FALSE
    /\ thr = [t \in Threads |-> Dead]
    /\ caller = IdleCaller
    /\ reader = [pc |-> "idle", present |-> FALSE, frame |-> NoFrame]
    /\ devseq = 0
    /\ devfmt = "color"
    /\ hist = [published |-> NoFrame, ended |-> "no", stopped |-> FALSE, cut |-> 0]

InitArducam ==
    /\ ctl = "Arducam"
    /\ force_color = FALSE
    /\ devfmt = "color"
    /\ InitFields

(* ----------------------- frame buffer (all classes) -------------------- *)
\* a slot that keeps an unread frame instead of overwriting it
StoreFrameKeepUnread(cur, frame) == IF cur = NoFrame THEN frame ELSE cur

\* self.current_frame = frame.copy(): the slot is overwritten
StoreFrame(cur, frame) == frame

\* get_frame() without its "is not None" test
get_frame_result_unchecked(cur) == [present |-> TRUE, frame |-> cur]

\* the tuple get_frame() returns for a given slot content
get_frame_result(cur) ==
    IF cur # NoFrame THEN [present |-> TRUE, frame |-> cur]
    ELSE [present |-> FALSE, frame |-> NoFrame]

\* get_frame(): "with self.frame_lock:" entered
GetFrameAcquire ==
    /\ reader.pc = "idle"
    /\ frame_lock = Unlocked
    /\ frame_lock' = Reader
    /\ reader' = [reader EXCEPT !.pc = "locked"]
    /\ UNCHANGED <<ctl, cap, is_running, current_frame, capture_thread,
                   force_color, thr, caller, devseq, devfmt, hist>>
    /\ UNCHANGED aux

\* get_frame(): the copy is taken, the lock released, the tuple returned
GetFrameReturn ==
    /\ reader.pc = "locked"
    /\ reader' = [pc |-> "idle",
                  present |-> get_frame_result(current_frame).present,
                  frame |-> get_frame_result(current_frame).frame]
    /\ frame_lock' = Unlocked
    /\ UNCHANGED <<ctl, cap, is_running, current_frame, capture_thread,
                   force_color, thr, caller, devseq, devfmt, hist>>
    /\ UNCHANGED aux

(* --------------------------- ArducamController ------------------------- *)
\* what one attempt of connect() can meet:
\*   ok       a backend opens and _configure_camera() returns True
\*   noframe  a backend opens, _configure_camera() returns False: disconnect()
\*   raise    a backend opens, configuring raises: handler releases, cap = None
\*   noopen   no backend opens; each handle is released, self.cap keeps the last
\*   noctor_* every cv2.VideoCapture(...) raises and self.cap keeps its value;
\*            if that is an open handle, it is configured with result *
AttemptOutcomes ==
    {"ok", "noframe", "raise", "noopen", "noctor_ok", "noctor_noframe", "noctor_raise"}

\* the outcomes in which every constructor call raises
CtorRaises == {"noctor_ok", "noctor_noframe", "noctor_raise"}

\* the handle _configure_camera() is called on, if the attempt comes to it
AttemptHandle(c, o) ==
    CASE o \in {"ok", "noframe", "raise"} -> Handle(TRUE, 0)
      [] o = "noopen"  -> Handle(FALSE, 1)
      [] OTHER         -> c

\* one attempt of connect() on self.cap = c with outcome o: the new self.cap
\* and what connect() does next
Attempt(c, o) ==
    LET c2 == AttemptHandle(c, o)
        conf == IF o \in CtorRaises THEN o ELSE "noctor_" \o o
    IN  IF ~(c2.obj /\ c2.open) THEN [cap |-> c2, next |-> "continue"]
        ELSE CASE conf = "noctor_ok"      -> [cap |-> c2, next |-> "true"]
               [] conf = "noctor_noframe" -> [cap |-> c2, next |-> "disconnect"]
               [] conf = "noctor_raise"   -> [cap |-> NoHandle, next |-> "continue"]

\* the caller after an attempt that neither returned nor disconnected: the
\* next attempt (after the retry delay) or "return False"
AfterAttempt(a) ==
    IF a < max_retries THEN [pc |-> "attempt", op |-> "connect", attempt |-> a + 1]
    ELSE IdleCaller

\* connect() runs attempt number a
ConnectRuns(a) ==
    \E o \in AttemptOutcomes :
       LET r == Attempt(cap, o) IN
       /\ cap' = r.cap
       /\ CASE r.next = "true" ->
                 /\ caller' = IdleCaller
                 /\ UNCHANGED is_running
            [] r.next = "disconnect" ->
                 /\ is_running' = FALSE
                 /\ caller' = [pc |-> "join", op |-> "connect", attempt |-> a]
            [] r.next = "continue" ->
                 /\ caller' = AfterAttempt(a)
                 /\ UNCHANGED is_running

\* connect() is called
AC_Connect ==
    /\ ctl = "Arducam"
    /\ caller.pc = "idle"
    /\ ConnectRuns(1)
    /\ UNCHANGED <<ctl, current_frame, frame_lock, capture_thread, force_color,
                   thr, reader, devseq, devfmt, hist>>
    /\ UNCHANGED aux

\* connect() goes on with its next attempt
AC_ConnectResume ==
    /\ ctl = "Arducam"
    /\ caller.pc = "attempt"
    /\ ConnectRuns(caller.attempt)
    /\ UNCHANGED <<ctl, current_frame, frame_lock, capture_thread, force_color,
                   thr, reader, devseq, devfmt, hist>>
    /\ UNCHANGED aux

\* what follows disconnect()'s body: its caller, or the attempt loop of connect()
AfterDisconnect(c) ==
    IF c.op = "connect" THEN AfterAttempt(c.attempt) ELSE IdleCaller

\* start_capture()
AC_StartCapture ==
    /\ ctl = "Arducam"
    /\ caller.pc = "idle"
    /\ IF is_running
       THEN UNCHANGED <<is_running, capture_thread, thr>>
       ELSE IF ~CapOpen
       THEN UNCHANGED <<is_running, capture_thread, thr>>
       ELSE /\ FreeSlots # {}
            /\ LET t == Min(FreeSlots) IN
               /\ is_running' = TRUE
               /\ capture_thread' = t
               /\ thr' = [thr EXCEPT ![t] = Spawned]
    /\ UNCHANGED <<ctl, cap, current_frame, frame_lock, force_color,
                   caller, reader, devseq, devfmt, hist>>
    /\ UNCHANGED aux

\* stop_capture() is called: is_running is cleared
AC_StopCapture ==
    /\ ctl = "Arducam"
    /\ caller.pc = "idle"
    /\ is_running' = FALSE
    /\ caller' = [pc |-> "join", op |-> "stop_capture", attempt |-> 0]
    /\ UNCHANGED <<ctl, cap, current_frame, frame_lock, capture_thread,
                   force_color, thr, reader, devseq, devfmt, hist>>
    /\ UNCHANGED aux

\* disconnect() is called: it begins with stop_capture()
AC_Disconnect ==
    /\ ctl = "Arducam"
    /\ caller.pc = "idle"
    /\ is_running' = FALSE
    /\ caller' = [pc |-> "join", op |-> "disconnect", attempt |-> 0]
    /\ hist' = [hist EXCEPT !.cut = devseq]
    /\ UNCHANGED <<ctl, cap, current_frame, frame_lock, capture_thread,
                   force_color, thr, reader, devseq, devfmt>>
    /\ UNCHANGED aux

\* capture_thread.join(timeout=2.0) returns: the thread has exited, or the
\* two seconds ran out while the thread is inside a device read
JoinReturns ==
    IF capture_thread = None THEN TRUE
    ELSE ~Alive(capture_thread) \/ thr[capture_thread].pc = "reading"

\* stop_capture(): "if self.capture_thread: self.capture_thread.join(timeout=2.0)"
AC_Join ==
    /\ ctl = "Arducam"
    /\ caller.pc = "join"
    /\ JoinReturns
    /\ caller' = IF caller.op = "stop_capture" THEN IdleCaller
                 ELSE [caller EXCEPT !.pc = "release"]
    /\ UNCHANGED <<ctl, cap, is_running, current_frame, frame_lock,
                   capture_thread, force_color, thr, reader, devseq, devfmt, hist>>
    /\ UNCHANGED aux

\* disconnect(): "if self.cap: self.cap.release()"
AC_Release ==
    /\ ctl = "Arducam"
    /\ caller.pc = "release"
    /\ IF cap.obj
       THEN /\ cap' = Released(cap)
            /\ caller' = [caller EXCEPT !.pc = "setnone"]
       ELSE /\ caller' = AfterDisconnect(caller)
            /\ UNCHANGED cap
    /\ UNCHANGED <<ctl, is_running, current_frame, frame_lock, capture_thread,
                   force_color, thr, reader, devseq, devfmt, hist>>
    /\ UNCHANGED aux

\* disconnect(): "self.cap = None"
AC_SetNone ==
    /\ ctl = "Arducam"
    /\ caller.pc = "setnone"
    /\ cap' = NoHandle
    /\ caller' = AfterDisconnect(caller)
    /\ UNCHANGED <<ctl, is_running, current_frame, frame_lock,
                   capture_thread, force_color, thr, reader, devseq, devfmt, hist>>
    /\ UNCHANGED aux

\* _capture_loop: "while self.is_running" and "if self.cap and self.cap.isOpened()"
AC_LoopHead(t) ==
    /\ ctl = "Arducam"
    /\ thr[t].pc = "loop"
    /\ IF ~is_running
       THEN thr' = [thr EXCEPT ![t] = Dead]
       ELSE IF CapOpen
       THEN thr' = [thr EXCEPT ![t].pc = "call"]
       ELSE thr' = [thr EXCEPT ![t] = Dead]
    /\ UNCHANGED <<ctl, cap, is_running, current_frame, frame_lock,
                   capture_thread, force_color, caller, reader, devseq, devfmt, hist>>
    /\ UNCHANGED aux

\* a capture loop that takes frame_lock around the device read as well
AC_ReadBeginLocked(t) ==
    /\ ctl = "Arducam"
    /\ thr[t].pc = "call"
    /\ frame_lock = Unlocked
    /\ cap.obj /\ cap.open
    /\ frame_lock' = t
    /\ thr' = [thr EXCEPT ![t].pc = "reading"]
    /\ UNCHANGED <<ctl, cap, is_running, current_frame, capture_thread,
                   force_color, caller, reader, devseq, devfmt, hist>>
    /\ UNCHANGED aux

\* _capture_loop: "self.cap.read()" is entered.  self.cap is loaded again:
\* None has no read() (AttributeError ends the thread); a released handle
\* answers (False, None) at once.
AC_ReadBegin(t) ==
    /\ ctl = "Arducam"
    /\ thr[t].pc = "call"
    /\ IF ~cap.obj
       THEN thr' = [thr EXCEPT ![t] = Dead]
       ELSE IF ~cap.open
       THEN thr' = [thr EXCEPT ![t].pc = "loop"]
       ELSE thr' = [thr EXCEPT ![t].pc = "reading"]
    /\ UNCHANGED <<ctl, cap, is_running, current_frame, frame_lock,
                   capture_thread, force_color, caller, reader, devseq, devfmt, hist>>
    /\ UNCHANGED aux

\* _capture_loop: the device read returns a frame, fails, or raises
AC_ReadEnd(t) ==
    /\ ctl = "Arducam"
    /\ thr[t].pc = "reading"
    /\ \E outcome \in {"frame", "fail", "raise"} :
          \/ /\ outcome = "frame"
             /\ devseq < MaxFrames
             /\ devseq' = devseq + 1
             /\ thr' = [thr EXCEPT ![t].pc = "publish",
                                   ![t].frame = [seq |-> devseq + 1, fmt |-> devfmt]]
          \/ /\ outcome = "fail"
             /\ thr' = [thr EXCEPT ![t].pc = "loop"]
             /\ UNCHANGED devseq
          \/ /\ outcome = "raise"
             /\ thr' = [thr EXCEPT ![t] = Dead]
             /\ UNCHANGED devseq
    /\ UNCHANGED <<ctl, cap, is_running, current_frame, frame_lock,
                   capture_thread, force_color, caller, reader, devfmt, hist>>
    /\ UNCHANGED aux

\* _capture_loop: "with self.frame_lock:" entered
AC_Acquire(t) ==
    /\ ctl = "Arducam"
    /\ thr[t].pc = "publish"
    /\ frame_lock = Unlocked
    /\ frame_lock' = t
    /\ thr' = [thr EXCEPT ![t].pc = "store"]
    /\ UNCHANGED <<ctl, cap, is_running, current_frame, capture_thread,
                   force_color, caller, reader, devseq, devfmt, hist>>
    /\ UNCHANGED aux

\* _capture_loop: "self.current_frame = frame.copy()", the lock is released
AC_Store(t) ==
    /\ ctl = "Arducam"
    /\ thr[t].pc = "store"
    /\ current_frame' = StoreFrame(current_frame, thr[t].frame)
    /\ hist' = [hist EXCEPT !.published = thr[t].frame]
    /\ frame_lock' = Unlocked
    /\ thr' = [thr EXCEPT ![t].pc = "loop", ![t].frame = NoFrame]
    /\ UNCHANGED <<ctl, cap, is_running, capture_thread, force_color,
                   caller, reader, devseq, devfmt>>
    /\ UNCHANGED aux

NextArducam ==
    \/ AC_Connect
    \/ AC_ConnectResume
    \/ AC_StartCapture
    \/ AC_StopCapture
    \/ AC_Disconnect
    \/ AC_Join
    \/ AC_Release
    \/ AC_SetNone
    \/ \E t \in Threads : AC_LoopHead(t)
    \/ \E t \in Threads : AC_ReadBegin(t)
    \/ \E t \in Threads : AC_ReadEnd(t)
    \/ \E t \in Threads : AC_Acquire(t)
    \/ \E t \in Threads : AC_Store(t)
    \/ GetFrameAcquire
    \/ GetFrameReturn

SpecArducam == InitArducam /\ [][NextArducam]_vars

(* ---------- RobustArducamController, TrueColorArducamController -------- *)
(* The two classes share start_capture, _capture_loop, get_frame and stop  *)
(* line for line; TrueColorArducamController passes each frame through     *)
(* _force_color_processing before it is stored.  Their caller is main():   *)
(* it connects and starts capture only while no capture thread is alive.   *)

\* the classes whose start_capture, stop and _capture_loop are the same code
LoopClasses == {"Robust", "TrueColor", "Color"}

InitRobust ==
    /\ ctl = "Robust"
    /\ force_color = FALSE
    /\ devfmt = "color"
    /\ InitFields

\* pixel layouts a device can deliver: true colour, three identical
\* channels, a 2-D grayscale buffer
DeviceFormats == {"color", "disguised", "gray2d"}

InitTrueColor ==
    /\ ctl = "TrueColor"
    /\ force_color = TRUE
    /\ devfmt \in DeviceFormats
    /\ InitFields

\* len(frame.shape) == 3 and frame.shape[2] == 3
ThreeChannel(f) == f.fmt \in {"color", "disguised", "gray3", "tinted"}

\* _is_grayscale_disguised_as_color: three channels whose mean differences
\* are all below 5.0
IsGrayscaleDisguisedAsColor(f) == ThreeChannel(f) /\ f.fmt \in {"disguised", "gray3"}

\* _force_color_processing
ForceColorProcessing(f, force) ==
    IF f.fmt = "gray2d" THEN [f EXCEPT !.fmt = "gray3"]
    ELSE IF ThreeChannel(f)
    THEN IF force \/ IsGrayscaleDisguisedAsColor(f)
         THEN [f EXCEPT !.fmt = "tinted"]
         ELSE f
    ELSE f

\* pixel layouts the device of a ColorArducamController can deliver: those
\* of DeviceFormats, an (h, w, 1) buffer and a 4-channel (BGRA) buffer
ColorDeviceFormats == DeviceFormats \cup {"single", "bgra"}

\* ColorArducamController._capture_loop: "if len(frame.shape) == 2: ...
\* elif frame.shape[2] == 1: ..." with cv2.COLOR_GRAY2BGR
ToBGR(f) ==
    IF f.fmt = "gray2d" THEN [f EXCEPT !.fmt = "gray3"]
    ELSE IF f.fmt = "single" THEN [f EXCEPT !.fmt = "gray3"]
    ELSE f

\* the frame _capture_loop stores for a frame read from the device
Processed(f) ==
    IF ctl = "TrueColor" THEN ForceColorProcessing(f, force_color)
    ELSE IF ctl = "Color" THEN ToBGR(f)
    ELSE f

\* what one strategy of connect() can meet:
\*   ok      the device opens and the test frame is read
\*   noopen  the device does not open (nothing is released)
\*   noframe the device opens, the test read fails, the handle is released
StrategyOutcomes == {"ok", "noopen", "noframe"}

\* self.cap after one strategy
StrategyHandle(o) ==
    CASE o = "ok"      -> Handle(TRUE, 0)
      [] o = "noopen"  -> Handle(FALSE, 0)
      [] o = "noframe" -> Handle(FALSE, 1)

\* connect(): the strategies from number k on, the device answering outs[k], ...
RECURSIVE StrategiesFrom(_, _, _, _)
StrategiesFrom(c, outs, k, n) ==
    IF k > n THEN [cap |-> c, ret |-> FALSE, by |-> 0]
    ELSE IF outs[k] = "ok" THEN [cap |-> StrategyHandle("ok"), ret |-> TRUE, by |-> k]
    ELSE StrategiesFrom(StrategyHandle(outs[k]), outs, k + 1, n)

\* RobustArducamController.connect(): three strategies
RC_Connect ==
    /\ ctl \in {"Robust", "Color"}
    /\ caller.pc = "idle"
    /\ NoLoopAlive
    /\ \E r \in {StrategiesFrom(cap, outs, 1, 3) : outs \in [1..3 -> StrategyOutcomes]} :
          /\ cap' = r.cap
          /\ hist' = [hist EXCEPT !.ended = IF r.ret THEN "no" ELSE @,
                                  !.stopped = FALSE]
    /\ UNCHANGED <<ctl, is_running, current_frame, frame_lock, capture_thread,
                   force_color, thr, caller, reader, devseq, devfmt>>
    /\ UNCHANGED aux

\* self.force_color after the first strategy has read its probe frame
ProbeForceColor(f) ==
    IF IsGrayscaleDisguisedAsColor(f) THEN TRUE
    ELSE IF ThreeChannel(f) THEN FALSE
    ELSE TRUE

\* TrueColorArducamController.connect(): two strategies; only the first
\* one looks at the probe frame
TC_Connect ==
    /\ ctl = "TrueColor"
    /\ caller.pc = "idle"
    /\ NoLoopAlive
    /\ \E r \in {StrategiesFrom(cap, outs, 1, 2) : outs \in [1..2 -> StrategyOutcomes]} :
          /\ cap' = r.cap
          /\ force_color' = IF r.by = 1
                            THEN ProbeForceColor([seq |-> 0, fmt |-> devfmt])
                            ELSE force_color
          /\ hist' = [hist EXCEPT !.ended = IF r.ret THEN "no" ELSE @,
                                  !.stopped = FALSE]
    /\ UNCHANGED <<ctl, is_running, current_frame, frame_lock, capture_thread,
                   thr, caller, reader, devseq, devfmt>>
    /\ UNCHANGED aux

\* start_capture(): unconditional
RC_StartCapture ==
    /\ ctl \in LoopClasses
    /\ caller.pc = "idle"
    /\ NoLoopAlive
    /\ LET t == Min(FreeSlots) IN
       /\ is_running' = TRUE
       /\ capture_thread' = t
       /\ thr' = [thr EXCEPT ![t] = Spawned]
    /\ UNCHANGED <<ctl, cap, current_frame, frame_lock, force_color,
                   caller, reader, devseq, devfmt, hist>>
    /\ UNCHANGED aux

\* stop() is called: is_running is cleared
RC_Stop ==
    /\ ctl \in LoopClasses
    /\ caller.pc = "idle"
    /\ cap.rel < MaxReleases
    /\ is_running' = FALSE
    /\ caller' = [pc |-> "join", op |-> "stop", attempt |-> 0]
    /\ UNCHANGED <<ctl, cap, current_frame, frame_lock, capture_thread,
                   force_color, thr, reader, devseq, devfmt, hist>>
    /\ UNCHANGED aux

\* stop(): "if self.capture_thread and self.capture_thread.is_alive():
\*              self.capture_thread.join(timeout=2.0)"
RC_Join ==
    /\ ctl \in LoopClasses
    /\ caller.pc = "join"
    /\ JoinReturns
    /\ caller' = [caller EXCEPT !.pc = "release"]
    /\ UNCHANGED <<ctl, cap, is_running, current_frame, frame_lock,
                   capture_thread, force_color, thr, reader, devseq, devfmt, hist>>
    /\ UNCHANGED aux

\* stop(): "if self.cap: self.cap.release()", and stop() returns
RC_Release ==
    /\ ctl \in LoopClasses
    /\ caller.pc = "release"
    /\ cap' = IF cap.obj THEN Released(cap) ELSE cap
    /\ caller' = IdleCaller
    /\ hist' = [hist EXCEPT !.stopped = TRUE]
    /\ UNCHANGED <<ctl, is_running, current_frame, frame_lock, capture_thread,
                   force_color, thr, reader, devseq, devfmt>>
    /\ UNCHANGED aux

\* _capture_loop: "while self.is_running" and "if self.cap and self.cap.isOpened()"
RC_LoopHead(t) ==
    /\ ctl \in LoopClasses
    /\ thr[t].pc = "loop"
    /\ IF ~is_running
       THEN /\ thr' = [thr EXCEPT ![t] = Dead]
            /\ hist' = [hist EXCEPT !.ended = "stopped"]
       ELSE IF CapOpen
       THEN /\ thr' = [thr EXCEPT ![t].pc = "call"]
            /\ UNCHANGED hist
       ELSE /\ thr' = [thr EXCEPT ![t] = Dead]
            /\ hist' = [hist EXCEPT !.ended = "nocam"]
    /\ UNCHANGED <<ctl, cap, is_running, current_frame, frame_lock,
                   capture_thread, force_color, caller, reader, devseq, devfmt>>
    /\ UNCHANGED aux

\* a loop that gives up at the fifth failed read of a streak
FailedReadEarly(t) ==
    IF thr[t].fails + 1 >= 5
    THEN /\ thr' = [thr EXCEPT ![t] = Dead]
         /\ hist' = [hist EXCEPT !.ended = "faulted"]
    ELSE /\ thr' = [thr EXCEPT ![t].pc = "loop", ![t].fails = @ + 1, ![t].run = @ + 1]
         /\ UNCHANGED hist

\* _capture_loop, the else branch of "if ret and frame is not None": the
\* streak grows; at max_failures the loop breaks, else it sleeps and goes on.
\* (run is history: the failing iterations since the last frame was read.)
FailedRead(t) ==
    IF thr[t].fails + 1 >= max_failures
    THEN /\ thr' = [thr EXCEPT ![t] = Dead]
         /\ hist' = [hist EXCEPT !.ended = "faulted"]
    ELSE /\ thr' = [thr EXCEPT ![t].pc = "loop", ![t].fails = @ + 1, ![t].run = @ + 1]
         /\ UNCHANGED hist

\* _capture_loop, "except Exception": the streak grows, the loop goes on
CaughtException(t) ==
    /\ thr[t].fails < MaxStreak
    /\ thr' = [thr EXCEPT ![t].pc = "loop", ![t].fails = @ + 1, ![t].run = @ + 1]
    /\ UNCHANGED hist

\* _capture_loop: "self.cap.read()" is entered.  self.cap is loaded again:
\* None has no read() (the AttributeError is caught); a released handle
\* answers (False, None) at once.
RC_ReadBegin(t) ==
    /\ ctl \in LoopClasses
    /\ thr[t].pc = "call"
    /\ IF ~cap.obj THEN CaughtException(t)
       ELSE IF ~cap.open THEN FailedRead(t)
       ELSE /\ thr' = [thr EXCEPT ![t].pc = "reading"]
            /\ UNCHANGED hist
    /\ UNCHANGED <<ctl, cap, is_running, current_frame, frame_lock,
                   capture_thread, force_color, caller, reader, devseq, devfmt>>
    /\ UNCHANGED aux

\* _capture_loop: the device read returns a frame, fails, or raises.  The
\* streak is a local of the thread: its reset (after the publish in the
\* code) is applied when the read succeeds.
RC_ReadEnd(t) ==
    /\ ctl \in LoopClasses
    /\ thr[t].pc = "reading"
    /\ \E outcome \in {"frame", "fail", "raise"} :
          \/ /\ outcome = "frame"
             /\ devseq < MaxFrames
             /\ devseq' = devseq + 1
             /\ thr' = [thr EXCEPT ![t].pc = "publish", ![t].fails = 0, ![t].run = 0,
                           ![t].frame = Processed([seq |-> devseq + 1, fmt |-> devfmt])]
             /\ UNCHANGED hist
          \/ /\ outcome = "fail"
             /\ FailedRead(t)
             /\ UNCHANGED devseq
          \/ /\ outcome = "raise"
             /\ CaughtException(t)
             /\ UNCHANGED devseq
    /\ UNCHANGED <<ctl, cap, is_running, current_frame, frame_lock,
                   capture_thread, force_color, caller, reader, devfmt>>
    /\ UNCHANGED aux

\* _capture_loop: "with self.frame_lock:" entered
RC_Acquire(t) ==
    /\ ctl \in LoopClasses
    /\ thr[t].pc = "publish"
    /\ frame_lock = Unlocked
    /\ frame_lock' = t
    /\ thr' = [thr EXCEPT ![t].pc = "store"]
    /\ UNCHANGED <<ctl, cap, is_running, current_frame, capture_thread,
                   force_color, caller, reader, devseq, devfmt, hist>>
    /\ UNCHANGED aux

\* _capture_loop: "self.current_frame = frame.copy()", the lock is released
RC_Store(t) ==
    /\ ctl \in LoopClasses
    /\ thr[t].pc = "store"
    /\ current_frame' = StoreFrame(current_frame, thr[t].frame)
    /\ hist' = [hist EXCEPT !.published = thr[t].frame]
    /\ frame_lock' = Unlocked
    /\ thr' = [thr EXCEPT ![t].pc = "loop", ![t].frame = NoFrame]
    /\ UNCHANGED <<ctl, cap, is_running, capture_thread, force_color,
                   caller, reader, devseq, devfmt>>
    /\ UNCHANGED aux

NextRobust ==
    \/ RC_Connect
    \/ RC_StartCapture
    \/ RC_Stop
    \/ RC_Join
    \/ RC_Release
    \/ \E t \in Threads : RC_LoopHead(t)
    \/ \E t \in Threads : RC_ReadBegin(t)
    \/ \E t \in Threads : RC_ReadEnd(t)
    \/ \E t \in Threads : RC_Acquire(t)
    \/ \E t \in Threads : RC_Store(t)
    \/ GetFrameAcquire
    \/ GetFrameReturn

SpecRobust == InitRobust /\ [][NextRobust]_vars

\* ColorArducamController capturing: its connect() leaves self.cap as the
\* three strategies of RC_Connect do, its loop converts before it stores
InitColorLoop ==
    /\ ctl = "Color"
    /\ force_color = FALSE
    /\ devfmt \in ColorDeviceFormats
    /\ InitFields

SpecColorLoop == InitColorLoop /\ [][NextRobust]_vars

NextTrueColor ==
    \/ TC_Connect
    \/ RC_StartCapture
    \/ RC_Stop
    \/ RC_Join
    \/ RC_Release
    \/ \E t \in Threads : RC_LoopHead(t)
    \/ \E t \in Threads : RC_ReadBegin(t)
    \/ \E t \in Threads : RC_ReadEnd(t)
    \/ \E t \in Threads : RC_Acquire(t)
    \/ \E t \in Threads : RC_Store(t)
    \/ GetFrameAcquire
    \/ GetFrameReturn

SpecTrueColor == InitTrueColor /\ [][NextTrueColor]_vars

(* --------------------------- all three classes ------------------------- *)
Init == InitArducam \/ InitRobust \/ InitTrueColor

Next == NextArducam \/ NextRobust \/ TC_Connect

Spec == Init /\ [][Next]_vars

(* ------------------- frame objects and their copies -------------------- *)
(* RobustArducamController with the frames as objects: numpy arrays on a   *)
(* heap, and the references _capture_loop, current_frame and the callers   *)
(* of get_frame() hold to them.  An array no reference reaches is freed.   *)

\* the callers of get_frame()
Readers == 1..MaxReaders

ObjIds == 1..MaxObjects

\* a free cell of the heap
Free == [seq |-> 0, drawn |-> FALSE]

\* the references of heap record h that keep an array alive
Roots(h) == ({h.frame, h.cur} \cup {h.ret[r] : r \in Readers}) \ {None}

\* arrays that no reference reaches are freed
Collect(h) ==
    [h EXCEPT !.mem = [o \in ObjIds |-> IF o \in Roots(h) THEN h.mem[o] ELSE Free]]

\* the lowest free cell
NewObj(h) == Min({o \in ObjIds : h.mem[o] = Free})

\* a "copy" that hands out the array itself
CopyAlias(h, ref) == [mem |-> h.mem, ref |-> ref]

\* ndarray.copy(): a new array with the content of the array at ref
Copy(h, ref) ==
    [mem |-> [h.mem EXCEPT ![NewObj(h)] = h.mem[ref]], ref |-> NewObj(h)]

\* what a reference shows
Content(h, ref) == IF ref = None THEN Free ELSE h.mem[ref]

InitAlias ==
    /\ Constructed("Robust")
    /\ heap = [mem |-> [o \in ObjIds |-> Free], frame |-> None, cur |-> None,
               ret |-> [r \in Readers |-> None], op |-> "init", who |-> None]
    /\ nego = Unused
    /\ cls = Unused
    /\ focus = Unused

\* _capture_loop: "ret, frame = self.cap.read()" delivers a new array
AL_Read ==
    /\ Cardinality(Roots([heap EXCEPT !.frame = None])) < MaxObjects
    /\ devseq < MaxFrames
    /\ devseq' = devseq + 1
    /\ LET h == Collect([heap EXCEPT !.frame = None])
           o == NewObj(h)
       IN  heap' = [h EXCEPT !.mem[o] = [seq |-> devseq + 1, drawn |-> FALSE],
                             !.frame = o, !.op = "read", !.who = None]
    /\ UNCHANGED <<ctl, cap, is_running, current_frame, frame_lock, capture_thread,
                   force_color, thr, caller, reader, devfmt, hist>>
    /\ UNCHANGED <<nego, cls, focus>>

\* _capture_loop: "self.current_frame = frame.copy()"
AL_Store ==
    /\ heap.frame # None
    /\ Cardinality(Roots([heap EXCEPT !.cur = None])) < MaxObjects
    /\ LET h == Collect([heap EXCEPT !.cur = None])
           c == Copy(h, h.frame)
       IN  heap' = Collect([h EXCEPT !.mem = c.mem, !.cur = c.ref, !.frame = None,
                                     !.op = "store", !.who = None])
    /\ UNCHANGED <<engine, nego, cls, focus>>

\* get_frame() called by r: (True, self.current_frame.copy()) or (False, None)
AL_GetFrame(r) ==
    /\ Cardinality(Roots([heap EXCEPT !.ret[r] = None])) < MaxObjects
    /\ LET h == Collect([heap EXCEPT !.ret[r] = None])
           c == Copy(h, h.cur)
       IN  heap' = IF h.cur = None
                   THEN [h EXCEPT !.op = "get_frame", !.who = r]
                   ELSE Collect([h EXCEPT !.mem = c.mem, !.ret[r] = c.ref,
                                          !.op = "get_frame", !.who = r])
    /\ UNCHANGED <<engine, nego, cls, focus>>

\* main(): cv2.putText(frame, ...) draws into the array get_frame() returned
AL_Draw(r) ==
    /\ heap.ret[r] # None
    /\ heap' = [heap EXCEPT !.mem[heap.ret[r]].drawn = TRUE,
                            !.op = "draw", !.who = r]
    /\ UNCHANGED <<engine, nego, cls, focus>>

NextAlias ==
    \/ AL_Read
    \/ AL_Store
    \/ \E r \in Readers : AL_GetFrame(r)
    \/ \E r \in Readers : AL_Draw(r)

SpecAlias == InitAlias /\ [][NextAlias]_vars

(* ------------------------------ colour tests --------------------------- *)
(* The pixel tests of ArducamColorUnlock, ArducamColorForce and            *)
(* NativeColorArducamController.  A frame is a numpy array of uint8: its   *)
(* channel count, height, width, and the (b, g, r) pixel of its upper and  *)
(* of its lower half.  Arithmetic on the components is numpy's uint8       *)
(* arithmetic: it wraps modulo 256.                                        *)

\* component values a test frame is made of
Levels == {0, 100, 110, 255}

Pixels == Levels \X Levels \X Levels

\* frame.shape[:2] of the test frames
Shapes == {<<4, 4>>, <<8, 8>>, <<16, 8>>}

\* frame.shape[2]; 1 stands for a 2-D array
Channels == {1, 3, 4}

Frames ==
    [chan : Channels, shape : Shapes, top : Pixels, bot : Pixels]

\* frame[y, x]
PixelAt(f, y, x) == IF 2 * y < f.shape[1] THEN f.top ELSE f.bot

\* np.uint8 subtraction followed by abs(): abs() of an unsigned value is itself
AbsDiff8(a, b) == (a - b) % 256

\* np.uint8 addition
Add8(a, b) == (a + b) % 256

Max3(a, b, c) ==
    IF a >= b /\ a >= c THEN a ELSE IF b >= c THEN b ELSE c

\* range(a, b, step) for a positive step
Range(a, b, step) == {v \in a..(b - 1) : (v - a) % step = 0}

\* the sampling grid of _has_real_color and _check_color
GridPoints(f) ==
    LET h == f.shape[1]
        w == f.shape[2]
    IN  {p \in Range(h \div 4, (3 * h) \div 4, h \div 8)
                 \X Range(w \div 4, (3 * w) \div 4, w \div 8) :
            0 <= p[2] /\ p[2] < w /\ 0 <= p[1] /\ p[1] < h}

\* range() raises ValueError for a step of zero
GridRaises(f) == f.shape[1] \div 8 = 0 \/ f.shape[2] \div 8 = 0

\* ArducamColorUnlock._has_real_color, the test of one pixel (b, g, r)
RealColorPixel(px) ==
    LET b == px[1]
        g == px[2]
        r == px[3]
        max_diff == Max3(AbsDiff8(r, g), AbsDiff8(r, b), AbsDiff8(g, b))
        pixel_sum == Add8(Add8(r, g), b)
    IN  max_diff > 15 /\ 30 < pixel_sum /\ pixel_sum < 700

\* ArducamColorUnlock._has_real_color
HasRealColor(f) ==
    IF f.chan # 3 THEN "false"
    ELSE IF GridRaises(f) THEN "raise"
    ELSE LET total_pixels == Cardinality(GridPoints(f))
             color_pixels == Cardinality({p \in GridPoints(f) :
                                            RealColorPixel(PixelAt(f, p[1], p[2]))})
         IN  IF total_pixels > 0
             THEN IF 10 * color_pixels >= 3 * total_pixels THEN "true" ELSE "false"
             ELSE "false"

\* ArducamColorForce._check_color, the test of one pixel
CheckColorPixel(px) ==
    LET b == px[1]
        g == px[2]
        r == px[3]
    IN  AbsDiff8(r, g) > 20 \/ AbsDiff8(r, b) > 20 \/ AbsDiff8(g, b) > 20

\* ArducamColorForce._check_color
CheckColor(f) ==
    IF f.chan # 3 THEN "false"
    ELSE IF GridRaises(f) THEN "raise"
    ELSE IF Cardinality({p \in GridPoints(f) :
                            CheckColorPixel(PixelAt(f, p[1], p[2]))}) >= 3
         THEN "true" ELSE "false"

\* NativeColorArducamController._has_true_color: sample_points as (x, y)
SamplePoints(f) ==
    LET h == f.shape[1]
        w == f.shape[2]
    IN  << <<w \div 4, h \div 4>>, <<(3 * w) \div 4, h \div 4>>,
           <<w \div 4, (3 * h) \div 4>>, <<(3 * w) \div 4, (3 * h) \div 4>>,
           <<w \div 2, h \div 2>> >>

\* a pixel test that looks at the components instead of their differences
TrueColorPixelBright(px) == px[1] > 10 \/ px[2] > 10 \/ px[3] > 10

\* NativeColorArducamController._has_true_color, the test of one pixel
TrueColorPixel(px) ==
    LET b == px[1]
        g == px[2]
        r == px[3]
    IN  AbsDiff8(r, g) > 10 \/ AbsDiff8(r, b) > 10 \/ AbsDiff8(g, b) > 10

\* NativeColorArducamController._has_true_color
HasTrueColor(f) ==
    IF f.chan # 3 THEN "false"
    ELSE LET pts == SamplePoints(f)
             color_pixels ==
                Cardinality({i \in 1..Len(pts) :
                    /\ 0 <= pts[i][1] /\ pts[i][1] < f.shape[2]
                    /\ 0 <= pts[i][2] /\ pts[i][2] < f.shape[1]
                    /\ TrueColorPixel(PixelAt(f, pts[i][2], pts[i][1]))})
         IN  IF color_pixels >= 2 THEN "true" ELSE "false"

\* np.mean(np.abs(c1.astype(float) - c2.astype(float))) < threshold for the
\* channels i and j of f: the rows of the upper half have one difference,
\* those of the lower half the other
MeanDiffBelow(f, i, j, threshold) ==
    LET h == f.shape[1]
        upper == (h + 1) \div 2
        dt == IF f.top[i] >= f.top[j] THEN f.top[i] - f.top[j] ELSE f.top[j] - f.top[i]
        db == IF f.bot[i] >= f.bot[j] THEN f.bot[i] - f.bot[j] ELSE f.bot[j] - f.bot[i]
    IN  upper * dt + (h - upper) * db < threshold * h

\* a test for disguised grayscale that does not look at the shape
DisguisedAsColorAnyShape(f) ==
    IF MeanDiffBelow(f, 1, 2, 5) /\ MeanDiffBelow(f, 1, 3, 5) /\ MeanDiffBelow(f, 2, 3, 5)
    THEN "true" ELSE "false"

\* TrueColorArducamController._is_grayscale_disguised_as_color on the pixels
DisguisedAsColor(f) ==
    IF f.chan # 3 THEN "false"
    ELSE IF MeanDiffBelow(f, 1, 2, 5) /\ MeanDiffBelow(f, 1, 3, 5)
            /\ MeanDiffBelow(f, 2, 3, 5)
    THEN "true" ELSE "false"

InitClassify ==
    /\ Constructed("ColorUnlock")
    /\ cls \in [frame : Frames, pc : {"real"}, real : {"none"}, check : {"none"},
                 native : {"none"}, disguised : {"none"}]
    /\ heap = Unused
    /\ nego = Unused
    /\ focus = Unused

\* _has_real_color(frame) is called
CL_HasRealColor ==
    /\ cls.pc = "real"
    /\ cls' = [cls EXCEPT !.pc = "check", !.real = HasRealColor(cls.frame)]
    /\ UNCHANGED <<engine, heap, nego, focus>>

\* _check_color(frame) is called
CL_CheckColor ==
    /\ cls.pc = "check"
    /\ cls' = [cls EXCEPT !.pc = "native", !.check = CheckColor(cls.frame)]
    /\ UNCHANGED <<engine, heap, nego, focus>>

\* _has_true_color(frame) is called
CL_HasTrueColor ==
    /\ cls.pc = "native"
    /\ cls' = [cls EXCEPT !.pc = "disguised", !.native = HasTrueColor(cls.frame)]
    /\ UNCHANGED <<engine, heap, nego, focus>>

\* _is_grayscale_disguised_as_color(frame) is called
CL_IsDisguised ==
    /\ cls.pc = "disguised"
    /\ cls' = [cls EXCEPT !.pc = "done", !.disguised = DisguisedAsColor(cls.frame)]
    /\ UNCHANGED <<engine, heap, nego, focus>>

NextClassify ==
    \/ CL_HasRealColor
    \/ CL_CheckColor
    \/ CL_HasTrueColor
    \/ CL_IsDisguised

SpecClassify == InitClassify /\ [][NextClassify]_vars

(* ------------------------- one sampled pixel --------------------------- *)
(* The pixel test of _has_real_color on single pixels, over component      *)
(* values near the ends and in the middle of the uint8 range.              *)

\* component values of the sampled pixel
PixelLevels == {0, 10, 25, 100, 110, 200, 245, 255}

InitPixel ==
    /\ Constructed("ColorUnlock")
    /\ cls \in [pc : {"pixel"}, px : PixelLevels \X PixelLevels \X PixelLevels,
                 counted : {"none"}]
    /\ heap = Unused
    /\ nego = Unused
    /\ focus = Unused

\* the body of the sampling loop for the pixel "b, g, r = frame[y, x]"
PX_Sample ==
    /\ cls.pc = "pixel"
    /\ cls' = [cls EXCEPT !.pc = "sampled",
                   !.counted = IF RealColorPixel(cls.px) THEN "true" ELSE "false"]
    /\ UNCHANGED <<engine, heap, nego, focus>>

NextPixel == PX_Sample

SpecPixel == InitPixel /\ [][NextPixel]_vars

(* -------------------- NativeColorArducamController --------------------- *)
(* connect(): the ordered strategies, each opened, probed with five reads  *)
(* and accepted or released.  self.cap is the variable cap.                *)

\* len(strategies)
NativeStrategies == 7
\* "for i in range(5)"
ProbeReads == 5
\* "if color_frames >= 3"
ColorFramesNeeded == 3

Candidates == 1..NativeStrategies

\* frames the device delivers to a probe read: a colour frame, a 3-channel
\* frame of equal channels, a 2-D grayscale frame
ProbeFrames ==
    {[chan |-> 3, shape |-> <<8, 8>>, top |-> <<0, 0, 255>>, bot |-> <<255, 0, 0>>],
     [chan |-> 3, shape |-> <<8, 8>>, top |-> <<100, 100, 100>>, bot |-> <<100, 100, 100>>],
     [chan |-> 1, shape |-> <<8, 8>>, top |-> <<0, 0, 0>>, bot |-> <<0, 0, 0>>]}

\* a candidate connect() has not come to
Untried == [st |-> "untried", color |-> 0]

InitNative ==
    /\ Constructed("NativeColor")
    /\ nego = [pc |-> "idle", k |-> 0, i |-> 0, color_frames |-> 0, reads |-> 0,
               current_mode |-> 0, capfor |-> 0, ret |-> "none",
               log |-> [c \in Candidates |-> Untried], ops |-> <<>>]
    /\ heap = Unused
    /\ cls = Unused
    /\ focus = Unused

\* connect() is called
NC_Connect ==
    /\ ctl = "NativeColor"
    /\ nego.pc = "idle"
    /\ nego' = [nego EXCEPT !.pc = "open", !.k = 1]
    /\ UNCHANGED <<engine, heap, cls, focus>>

\* the strategy loop goes on with the next strategy, or connect() returns False
NextStrategy(n) ==
    IF n.k < NativeStrategies
    THEN [n EXCEPT !.pc = "open", !.k = @ + 1, !.i = 0, !.color_frames = 0,
                   !.reads = 0, !.ops = <<>>]
    ELSE [n EXCEPT !.pc = "done", !.ret = "false", !.i = 0, !.color_frames = 0,
                   !.reads = 0, !.ops = <<>>]

\* "self.cap = cv2.VideoCapture(...)" and "if self.cap.isOpened()"
NC_Open ==
    /\ ctl = "NativeColor"
    /\ nego.pc = "open"
    /\ \E opens \in BOOLEAN :
          /\ cap' = Handle(opens, 0)
          /\ nego' = IF opens
                     THEN [nego EXCEPT !.pc = "configure", !.i = 0, !.color_frames = 0,
                                       !.reads = 0, !.capfor = nego.k, !.ops = <<>>]
                     ELSE NextStrategy([nego EXCEPT !.capfor = nego.k,
                                          !.log[nego.k] = [st |-> "noopen", color |-> 0]])
    /\ UNCHANGED <<ctl, is_running, current_frame, frame_lock, capture_thread,
                   force_color, thr, caller, reader, devseq, devfmt, hist>>
    /\ UNCHANGED <<heap, cls, focus>>

\* settings applied with the resolution before the pixel format
SettingsResolutionFirst ==
    <<"width", "height", "fourcc", "pause", "fps", "buffersize", "settle">>

\* what connect() does to a handle that opened, before the probe: the
\* cap.set calls, "time.sleep(0.1)" (pause) and "time.sleep(1.0)" (settle)
Settings ==
    <<"fourcc", "pause", "width", "height", "fps", "buffersize", "settle">>

\* the next cap.set or sleep of connect() on the handle that opened.
\* (ops is history: what was done with the handle so far.)
NC_Configure ==
    /\ ctl = "NativeColor"
    /\ nego.pc = "configure"
    /\ LET j == Len(nego.ops) + 1 IN
       nego' = [nego EXCEPT !.ops = Append(@, Settings[j]),
                            !.pc = IF j = Len(Settings) THEN "probe" ELSE @]
    /\ UNCHANGED <<engine, heap, cls, focus>>

\* one probe read: "ret, frame = self.cap.read()" and the colour test
NC_Read ==
    /\ ctl = "NativeColor"
    /\ nego.pc = "probe"
    /\ nego.i < ProbeReads
    /\ \/ nego' = [nego EXCEPT !.i = @ + 1, !.ops = Append(@, "read")]
       \/ \E f \in ProbeFrames :
             nego' = [nego EXCEPT !.i = @ + 1, !.reads = @ + 1,
                         !.ops = Append(@, "read"),
                         !.color_frames = IF HasTrueColor(f) = "true" THEN @ + 1 ELSE @]
    /\ UNCHANGED <<engine, heap, cls, focus>>

\* a threshold of two colour frames
AcceptsTwo(color_frames) == color_frames >= 2

\* a threshold of four colour frames
AcceptsFour(color_frames) == color_frames >= 4

\* "if color_frames >= 3"
Accepts(color_frames) == color_frames >= ColorFramesNeeded

\* after the five reads: accept the strategy and return True, or release the
\* handle and go on
NC_Decide ==
    /\ ctl = "NativeColor"
    /\ nego.pc = "probe"
    /\ nego.i = ProbeReads
    /\ IF Accepts(nego.color_frames)
       THEN /\ nego' = [nego EXCEPT !.pc = "done", !.ret = "true",
                            !.current_mode = nego.k,
                            !.log[nego.k] = [st |-> "accepted",
                                             color |-> nego.color_frames]]
            /\ UNCHANGED cap
       ELSE /\ nego' = NextStrategy([nego EXCEPT
                            !.log[nego.k] = [st |-> "rejected",
                                             color |-> nego.color_frames]])
            /\ cap' = Released(cap)
    /\ UNCHANGED <<ctl, is_running, current_frame, frame_lock, capture_thread,
                   force_color, thr, caller, reader, devseq, devfmt, hist>>
    /\ UNCHANGED <<heap, cls, focus>>

NextNative ==
    \/ NC_Connect
    \/ NC_Open
    \/ NC_Configure
    \/ NC_Read
    \/ NC_Decide

SpecNative == InitNative /\ [][NextNative]_vars

(* ------------------------ ColorArducamController ----------------------- *)
(* connect(): three strategies written out one after the other, (MSMF,     *)
(* MJPG, 640x480), (MSMF, YUY2, 640x480), (MSMF, MJPG, 320x240); each      *)
(* opens the device, reads one test frame and looks at its shape.          *)

\* the strategies of ColorArducamController.connect
ColorStrategies == 3

\* no test frame
NoProbe == [chan |-> 0, shape |-> <<0, 0>>, top |-> <<0, 0, 0>>, bot |-> <<0, 0, 0>>]

\* frames the device delivers to a test read: those of ProbeFrames and a
\* 4-channel (BGRA) frame
TestFrames ==
    ProbeFrames \cup
    {[chan |-> 4, shape |-> <<8, 8>>, top |-> <<0, 0, 255>>, bot |-> <<255, 0, 0>>]}

\* "len(frame.shape) == 3 and frame.shape[2] == 3"
ColorShape(f) == f.chan = 3

InitColor ==
    /\ Constructed("Color")
    /\ nego = [pc |-> "idle", k |-> 0, capfor |-> 0, ret |-> "none", calls |-> 0,
               log |-> [c \in 1..ColorStrategies |-> [st |-> "untried", frame |-> NoProbe]]]
    /\ heap = Unused
    /\ cls = Unused
    /\ focus = Unused

\* connect() is called, on a new controller or again
CC_Connect ==
    /\ ctl = "Color"
    /\ nego.pc \in {"idle", "done"}
    /\ nego.calls < MaxCalls
    /\ nego' = [nego EXCEPT !.pc = "open", !.k = 1, !.ret = "none", !.calls = @ + 1,
                    !.log = [c \in 1..ColorStrategies |->
                                [st |-> "untried", frame |-> NoProbe]]]
    /\ UNCHANGED <<engine, heap, cls, focus>>

\* control falls through to the next strategy, or to "return False"
FallThrough(n) ==
    IF n.k < ColorStrategies
    THEN [n EXCEPT !.pc = "open", !.k = @ + 1]
    ELSE [n EXCEPT !.pc = "done", !.ret = "false"]

\* "self.cap = cv2.VideoCapture(...)" and "if self.cap.isOpened()"
CC_Open ==
    /\ ctl = "Color"
    /\ nego.pc = "open"
    /\ \E opens \in BOOLEAN :
          /\ cap' = Handle(opens, 0)
          /\ nego' = IF opens
                     THEN [nego EXCEPT !.pc = "probe", !.capfor = nego.k]
                     ELSE FallThrough([nego EXCEPT !.capfor = nego.k,
                                         !.log[nego.k].st = "noopen"])
    /\ UNCHANGED <<ctl, is_running, current_frame, frame_lock, capture_thread,
                   force_color, thr, caller, reader, devseq, devfmt, hist>>
    /\ UNCHANGED <<heap, cls, focus>>

\* the test read of a strategy with self.cap = c: no frame (NoProbe) releases
\* the handle and falls through; any frame, colour or not, returns True
Probe(n, c, f) ==
    IF f = NoProbe
    THEN [nego |-> FallThrough([n EXCEPT !.log[n.k] = [st |-> "rejected", frame |-> f]]),
          cap |-> Released(c)]
    ELSE [nego |-> [n EXCEPT !.pc = "done", !.ret = "true",
                             !.log[n.k] = [st |-> "accepted", frame |-> f]],
          cap |-> c]

\* "ret, frame = self.cap.read()" and what follows it
CC_Probe ==
    /\ ctl = "Color"
    /\ nego.pc = "probe"
    /\ \E f \in TestFrames \cup {NoProbe} :
          /\ nego' = Probe(nego, cap, f).nego
          /\ cap' = Probe(nego, cap, f).cap
    /\ UNCHANGED <<ctl, is_running, current_frame, frame_lock, capture_thread,
                   force_color, thr, caller, reader, devseq, devfmt, hist>>
    /\ UNCHANGED <<heap, cls, focus>>

NextColor ==
    \/ CC_Connect
    \/ CC_Open
    \/ CC_Probe

SpecColor == InitColor /\ [][NextColor]_vars

(* --------------------------- ArducamColorUnlock ------------------------ *)
(* connect(): one handle on which four pixel formats are tried in turn,    *)
(* then a second handle with the format left to the camera; each try is    *)
(* judged by _test_color_output().                                         *)

\* the entries of arducam_formats
arducam_formats == 4

\* the try on the second handle, after the formats
Alternative == arducam_formats + 1

\* test_frames of _test_color_output
test_frames == 10

\* history of the last _test_color_output that returned: its answer, its
\* color_frames, and the reads that delivered a frame
NotTested == [ans |-> "none", color |-> 0, reads |-> 0]

InitUnlock ==
    /\ Constructed("ColorUnlock")
    /\ nego = [pc |-> "idle", fmt |-> 0, i |-> 0, color_frames |-> 0, ret |-> "none",
               first |-> NoHandle, reads |-> 0, tested |-> NotTested]
    /\ heap = Unused
    /\ cls = Unused
    /\ focus = Unused

\* connect() up to the first format: the device is opened, "return False"
\* when it is not
CU_Connect ==
    /\ ctl = "ColorUnlock"
    /\ nego.pc = "idle"
    /\ \E opens \in BOOLEAN :
          /\ cap' = Handle(opens, 0)
          /\ nego' = IF opens
                     THEN [nego EXCEPT !.pc = "test", !.fmt = 1]
                     ELSE [nego EXCEPT !.pc = "done", !.ret = "false"]
    /\ UNCHANGED <<ctl, is_running, current_frame, frame_lock, capture_thread,
                   force_color, thr, caller, reader, devseq, devfmt, hist>>
    /\ UNCHANGED <<heap, cls, focus>>

\* one pass of the loop of _test_color_output: a read, and the count
CU_Read ==
    /\ ctl = "ColorUnlock"
    /\ nego.pc = "test"
    /\ nego.i < test_frames
    /\ \E f \in ProbeFrames \cup {NoProbe} :
          nego' = [nego EXCEPT !.i = @ + 1,
                      !.reads = IF f # NoProbe THEN @ + 1 ELSE @,
                      !.color_frames =
                          IF f # NoProbe /\ HasRealColor(f) = "true" THEN @ + 1 ELSE @]
    /\ UNCHANGED <<engine, heap, cls, focus>>

\* a _test_color_output that asks for more than half of the reads
TestResultStrict(color_frames) == 2 * color_frames > test_frames

\* "return color_ratio >= 0.5"
TestResult(color_frames) == 2 * color_frames >= test_frames

\* what connect() does with the answer of _test_color_output: True returns
\* True; False goes to the next format, after the last format releases the
\* handle, and after the alternative returns False
AfterTest(n, c) ==
    IF TestResult(n.color_frames)
    THEN [nego |-> [n EXCEPT !.pc = "done", !.ret = "true"], cap |-> c]
    ELSE IF n.fmt < arducam_formats
    THEN [nego |-> [n EXCEPT !.fmt = @ + 1, !.i = 0, !.color_frames = 0], cap |-> c]
    ELSE IF n.fmt = arducam_formats
    THEN [nego |-> [n EXCEPT !.pc = "reopen", !.first = Released(c)],
          cap |-> Released(c)]
    ELSE [nego |-> [n EXCEPT !.pc = "done", !.ret = "false"], cap |-> c]

\* _test_color_output returns
CU_Tested ==
    /\ ctl = "ColorUnlock"
    /\ nego.pc = "test"
    /\ nego.i = test_frames
    /\ nego' = [AfterTest(nego, cap).nego EXCEPT
                    !.reads = 0,
                    !.tested = [ans |-> IF TestResult(nego.color_frames)
                                        THEN "true" ELSE "false",
                                color |-> nego.color_frames,
                                reads |-> nego.reads]]
    /\ cap' = AfterTest(nego, cap).cap
    /\ UNCHANGED <<ctl, is_running, current_frame, frame_lock, capture_thread,
                   force_color, thr, caller, reader, devseq, devfmt, hist>>
    /\ UNCHANGED <<heap, cls, focus>>

\* "self.cap = cv2.VideoCapture(...)" of the alternative method
CU_Reopen ==
    /\ ctl = "ColorUnlock"
    /\ nego.pc = "reopen"
    /\ \E opens \in BOOLEAN :
          /\ cap' = Handle(opens, 0)
          /\ nego' = IF opens
                     THEN [nego EXCEPT !.pc = "test", !.fmt = Alternative, !.i = 0,
                                       !.color_frames = 0]
                     ELSE [nego EXCEPT !.pc = "done", !.ret = "false"]
    /\ UNCHANGED <<ctl, is_running, current_frame, frame_lock, capture_thread,
                   force_color, thr, caller, reader, devseq, devfmt, hist>>
    /\ UNCHANGED <<heap, cls, focus>>

NextUnlock ==
    \/ CU_Connect
    \/ CU_Read
    \/ CU_Tested
    \/ CU_Reopen

SpecUnlock == InitUnlock /\ [][NextUnlock]_vars

(* -------------------- ArducamController.connect, by steps -------------- *)
(* connect() on a controller whose capture thread is not running, one      *)
(* backend at a time; nego holds the position in the two loops and what    *)
(* the call has done so far.                                               *)

\* the entries of backends_to_try
Backends == 3

\* what one "cv2.VideoCapture(device_id, backend)" can do
BackendOutcomes == {"opened", "closed", "raise"}

\* what _configure_camera can do on an open handle
ConfigureOutcomes == {"ok", "noframe", "raise"}

\* a backend list that does not look at prefer_dshow
backends_to_try_dshow_first(prefer_dshow) == <<"DSHOW", "MSMF", "ANY">>

\* "backends_to_try" of an attempt
backends_to_try(prefer_dshow) ==
    IF prefer_dshow THEN <<"DSHOW", "MSMF", "ANY">>
    ELSE <<"MSMF", "DSHOW", "ANY">>

\* (tried, used are history: the backends the attempt has passed to
\* cv2.VideoCapture, and the backend of the handle that opened)
InitConnect ==
    /\ Constructed("Arducam")
    /\ \E p \in BOOLEAN :
          nego = [pc |-> "idle", attempt |-> 0, b |-> 0, opens |-> 0, total |-> 0,
                  ret |-> "none", configured |-> FALSE, calls |-> 0,
                  mine |-> FALSE, peak |-> 0, delays |-> 0,
                  prefer_dshow |-> p, tried |-> <<>>, used |-> "none"]
    /\ heap = Unused
    /\ cls = Unused
    /\ focus = Unused

\* connect() is called, on a new controller or again
AK_Connect ==
    /\ ctl = "Arducam"
    /\ nego.pc \in {"idle", "done"}
    /\ nego.calls < MaxCalls
    /\ nego' = [nego EXCEPT !.pc = "backend", !.attempt = 1, !.b = 1, !.opens = 0,
                    !.total = 0, !.ret = "none", !.configured = FALSE,
                    !.calls = @ + 1, !.mine = FALSE, !.peak = 0, !.delays = 0,
                    !.tried = <<>>, !.used = "none"]
    /\ UNCHANGED <<engine, heap, cls, focus>>

\* a backend loop that leaves a handle that did not open as it is
BackendHandleUnreleased(c, o) ==
    CASE o = "opened" -> Handle(TRUE, 0)
      [] o = "closed" -> Handle(FALSE, 0)
      [] o = "raise" -> c

\* self.cap after one pass of the backend loop that began with self.cap = c:
\* the new handle, released if it did not open, or c if the constructor raised
BackendHandle(c, o) ==
    CASE o = "opened" -> Handle(TRUE, 0)
      [] o = "closed" -> Handle(FALSE, 1)
      [] o = "raise" -> c

\* one pass of "for backend in backends_to_try": the constructor raises
\* (continue), or the handle is opened (break), or it is not (release).
\* (mine, peak are history: self.cap was made by this call; the most handles
\* made by this call that were open at once.)
AK_Backend ==
    /\ ctl = "Arducam"
    /\ nego.pc = "backend"
    /\ \E o \in BackendOutcomes :
          /\ cap' = BackendHandle(cap, o)
          /\ nego' = [nego EXCEPT !.opens = @ + 1, !.total = @ + 1,
                          !.tried = Append(@, backends_to_try(nego.prefer_dshow)[nego.b]),
                          !.used = IF o = "opened"
                                   THEN backends_to_try(nego.prefer_dshow)[nego.b]
                                   ELSE @,
                          !.mine = IF o = "raise" THEN @ ELSE TRUE,
                          !.peak = IF o # "opened" THEN @
                                   ELSE IF nego.mine /\ CapOpen THEN 2
                                   ELSE IF @ < 1 THEN 1 ELSE @,
                          !.b = IF o = "opened" THEN @ ELSE @ + 1,
                          !.pc = IF o = "opened" \/ nego.b = Backends
                                 THEN "check" ELSE "backend"]
    /\ UNCHANGED <<ctl, is_running, current_frame, frame_lock, capture_thread,
                   force_color, thr, caller, reader, devseq, devfmt, hist>>
    /\ UNCHANGED <<heap, cls, focus>>

\* an attempt loop that runs once more than max_retries
RetryOrFailOnceMore(n) ==
    IF n.attempt <= max_retries
    THEN [n EXCEPT !.pc = "backend", !.attempt = @ + 1, !.b = 1, !.opens = 0,
                   !.tried = <<>>, !.used = "none"]
    ELSE [n EXCEPT !.pc = "done", !.ret = "false"]

\* the end of an attempt that did not return: the next attempt, or
\* "return False" after the last one
RetryOrFail(n) ==
    IF n.attempt < max_retries
    THEN [n EXCEPT !.pc = "backend", !.attempt = @ + 1, !.b = 1, !.opens = 0,
                   !.tried = <<>>, !.used = "none"]
    ELSE [n EXCEPT !.pc = "done", !.ret = "false"]

\* _configure_camera() on handle c, the device doing o
ConfigureCamera(c, o) ==
    IF ~(c.obj /\ c.open) THEN "false"
    ELSE CASE o = "ok" -> "true"
           [] o = "noframe" -> "false"
           [] o = "raise" -> "raise"

\* a connect() that takes any answer of _configure_camera for success
AfterConfigureAnyAnswer(n, r) ==
    IF r # "raise" THEN [n EXCEPT !.pc = "done", !.ret = "true"]
    ELSE RetryOrFail(n)

\* connect() after _configure_camera answered r: "return True",
\* self.disconnect(), or the except clause
AfterConfigure(n, r) ==
    IF r = "true" THEN [n EXCEPT !.pc = "done", !.ret = "true"]
    ELSE RetryOrFail(n)

\* the sleeps of "if attempt < self.config.max_retries - 1:
\* time.sleep(retry_delay)" after _configure_camera answered r in the given
\* attempt (counted from 1)
Delay(attempt, r) ==
    IF r # "true" /\ attempt - 1 < max_retries - 1 THEN 1 ELSE 0

\* a connect() that keeps the handle _configure_camera did not accept
ConnectHandleKept(c, r) == c

\* self.cap after _configure_camera answered r on handle c: c on True; None
\* after self.disconnect() (False) and after the except clause (raise)
ConnectHandle(c, r) == IF r = "true" THEN c ELSE NoHandle

\* "if self.cap is None or not self.cap.isOpened(): continue", and the rest
\* of the attempt; the continue goes to the next attempt at once
AK_Check ==
    /\ ctl = "Arducam"
    /\ nego.pc = "check"
    /\ IF ~CapOpen
       THEN /\ nego' = RetryOrFail(nego)
            /\ UNCHANGED <<cap, is_running>>
       ELSE \E o \in ConfigureOutcomes :
              LET r == ConfigureCamera(cap, o) IN
              /\ nego' = [AfterConfigure(nego, r) EXCEPT
                              !.configured = (r = "true"),
                              !.delays = @ + Delay(nego.attempt, r)]
              /\ cap' = ConnectHandle(cap, r)
              /\ is_running' = IF r = "false" THEN FALSE ELSE is_running
    /\ UNCHANGED <<ctl, current_frame, frame_lock, capture_thread,
                   force_color, thr, caller, reader, devseq, devfmt, hist>>
    /\ UNCHANGED <<heap, cls, focus>>

NextConnect ==
    \/ AK_Connect
    \/ AK_Backend
    \/ AK_Check

SpecConnect == InitConnect /\ [][NextConnect]_vars

\* a connect() that was called runs on until it returns
SpecConnectFair == SpecConnect /\ WF_vars(AK_Backend) /\ WF_vars(AK_Check)

(* ------------------------ ArducamController.set_focus ------------------ *)
(* set_focus(focus_value) against the property primitive of the device:    *)
(* set() answers whether the driver took the write, and the driver stores  *)
(* the value as given or clamped to what the lens can do; get() returns    *)
(* what is stored.                                                         *)

\* the focus values callers pass (focus_values of the focus test)
FocusRequests == {0, 50, 100, 150, 200, 255}

\* what the driver stores for a write of v that it takes
Clamp(v) == IF v > MaxDeviceFocus THEN MaxDeviceFocus ELSE v

InitFocus ==
    /\ Constructed("Arducam")
    /\ focus = [pc |-> "idle", dev |-> 0, req |-> 0, result |-> "none",
                actual |-> -1, ret |-> "none", calls |-> 0]
    /\ heap = Unused
    /\ cls = Unused
    /\ nego = Unused

\* connect() has returned: True with the device open and manual_focus
\* written to it, or False with no device
FC_Connect ==
    /\ ctl = "Arducam"
    /\ focus.pc \in {"idle", "done"}
    /\ ~CapOpen
    /\ \E o \in {"ok", "noopen"} :
          /\ cap' = IF o = "ok" THEN Handle(TRUE, 0) ELSE NoHandle
          /\ focus' = [focus EXCEPT !.pc = "idle",
                           !.dev = IF o = "ok" THEN Clamp(manual_focus) ELSE @]
    /\ UNCHANGED <<ctl, is_running, current_frame, frame_lock, capture_thread,
                   force_color, thr, caller, reader, devseq, devfmt, hist>>
    /\ UNCHANGED <<heap, cls, nego>>

\* set_focus(v) is called: "return False" without a device, else the write
\* "result = self.cap.set(cv2.CAP_PROP_FOCUS, focus_value)"
FC_SetFocus ==
    /\ ctl = "Arducam"
    /\ focus.pc \in {"idle", "done"}
    /\ focus.calls < MaxCalls
    /\ \E v \in FocusRequests :
          IF ~CapOpen
          THEN focus' = [focus EXCEPT !.pc = "done", !.req = v, !.result = "none",
                            !.actual = -1, !.ret = "false", !.calls = @ + 1]
          ELSE \E taken \in BOOLEAN, clamps \in BOOLEAN :
                 focus' = [focus EXCEPT !.pc = IF taken THEN "verify" ELSE "return",
                              !.req = v, !.actual = -1, !.ret = "none",
                              !.calls = @ + 1,
                              !.result = IF taken THEN "true" ELSE "false",
                              !.dev = IF ~taken THEN @
                                      ELSE IF clamps THEN Clamp(v) ELSE v]
    /\ UNCHANGED <<engine, heap, cls, nego>>

\* "actual_focus = self.cap.get(cv2.CAP_PROP_FOCUS)", for the log
FC_Verify ==
    /\ ctl = "Arducam"
    /\ focus.pc = "verify"
    /\ focus' = [focus EXCEPT !.pc = "return", !.actual = focus.dev]
    /\ UNCHANGED <<engine, heap, cls, nego>>

\* what set_focus answers: the answer of the write
FocusAnswer(f) == f.result

\* "return result"
FC_Return ==
    /\ ctl = "Arducam"
    /\ focus.pc = "return"
    /\ focus' = [focus EXCEPT !.pc = "done", !.ret = FocusAnswer(focus)]
    /\ UNCHANGED <<engine, heap, cls, nego>>

NextFocus ==
    \/ FC_Connect
    \/ FC_SetFocus
    \/ FC_Verify
    \/ FC_Return

SpecFocus == InitFocus /\ [][NextFocus]_vars

(* ------------------- the candidate loops of both classes -------------- *)
InitCandidates == InitConnect \/ InitNative

NextCandidates == NextConnect \/ NextNative

SpecCandidates == InitCandidates /\ [][NextCandidates]_vars

(* ------------------- ArducamController._configure_camera --------------- *)
(* _configure_camera() as a function of self.cap and of what the device    *)
(* answers to the autofocus write and its read-back, to the focus write    *)
(* and its read-back, and to the test read.                                *)

\* self.cap, and the answers of the device
ConfigureInputs ==
    [handle : {NoHandle, Handle(TRUE, 0), Handle(FALSE, 1)},
     af_write : BOOLEAN, af_status : {0, 1},
     focus_write : BOOLEAN, current_focus : {manual_focus, MaxDeviceFocus},
     frame_ok : BOOLEAN]

InitConfigure ==
    /\ Constructed("Arducam")
    /\ focus \in [pc : {"entry"}, d : ConfigureInputs, warnings : {{}},
                   result : {"none"}]
    /\ heap = Unused
    /\ cls = Unused
    /\ nego = Unused

\* "if not self.cap or not self.cap.isOpened(): return False"
CF_Entry ==
    /\ focus.pc = "entry"
    /\ focus' = IF focus.d.handle.obj /\ focus.d.handle.open
                THEN [focus EXCEPT !.pc = "autofocus"]
                ELSE [focus EXCEPT !.pc = "done", !.result = "false"]
    /\ UNCHANGED <<engine, heap, cls, nego>>

\* the autofocus-disable write and its read-back: warnings only
CF_Autofocus ==
    /\ focus.pc = "autofocus"
    /\ focus' = [focus EXCEPT !.pc = "focus",
                     !.warnings = @ \cup (IF focus.d.af_write THEN {} ELSE {"af_write"})
                                    \cup (IF focus.d.af_status # 0 THEN {"af_status"}
                                          ELSE {})]
    /\ UNCHANGED <<engine, heap, cls, nego>>

\* the focus write and its read-back: a warning, and a logged value
CF_Focus ==
    /\ focus.pc = "focus"
    /\ focus' = [focus EXCEPT !.pc = "frame",
                     !.warnings = @ \cup (IF focus.d.focus_write THEN {}
                                          ELSE {"focus_write"})]
    /\ UNCHANGED <<engine, heap, cls, nego>>

\* a _configure_camera that fails when the focus write fails
TestFrameResultStrict(d) ==
    IF d.frame_ok /\ d.focus_write THEN "true" ELSE "false"

\* "ret, frame = self.cap.read()": False without a frame, else True
TestFrameResult(d) == IF d.frame_ok THEN "true" ELSE "false"

\* the image settings, the read-back of the size, and the test frame
CF_TestFrame ==
    /\ focus.pc = "frame"
    /\ focus' = [focus EXCEPT !.pc = "done", !.result = TestFrameResult(focus.d)]
    /\ UNCHANGED <<engine, heap, cls, nego>>

NextConfigure ==
    \/ CF_Entry
    \/ CF_Autofocus
    \/ CF_Focus
    \/ CF_TestFrame

SpecConfigure == InitConfigure /\ [][NextConfigure]_vars

(* --------------------- RobustArducamController.set_focus --------------- *)
(* set_focus(focus_value) one device call at a time. A device call         *)
(* answers, or raises and is caught by the "except Exception" of the       *)
(* method; focus.ops lists the operations of the call that completed.      *)

\* the body of the try block, in program order
FocusSteps == <<"autofocus_write", "focus_write", "settle", "read_back">>

IsPrefix(s, t) == Len(s) <= Len(t) /\ s = SubSeq(t, 1, Len(s))

InitRobustFocus ==
    /\ Constructed("Robust")
    /\ focus = [pc |-> "idle", dev |-> 0, open |-> FALSE, req |-> 0, ops |-> <<>>,
                result |-> "none", actual |-> -1, raised |-> FALSE,
                ret |-> "none", calls |-> 0]
    /\ heap = Unused
    /\ cls = Unused
    /\ nego = Unused

\* connect() has returned: True with the device open, or False
RF_Connect ==
    /\ ctl = "Robust"
    /\ focus.pc \in {"idle", "done"}
    /\ ~CapOpen
    /\ \E o \in {"ok", "noopen"} :
          cap' = IF o = "ok" THEN Handle(TRUE, 0) ELSE Handle(FALSE, 1)
    /\ UNCHANGED <<ctl, is_running, current_frame, frame_lock, capture_thread,
                   force_color, thr, caller, reader, devseq, devfmt, hist>>
    /\ UNCHANGED aux

\* "except Exception as e: ... return False"
Caught(f) == [f EXCEPT !.pc = "done", !.raised = TRUE, !.ret = "false"]

\* set_focus(v) is called: "if self.cap and self.cap.isOpened():", else
\* "return False"
RF_SetFocus ==
    /\ ctl = "Robust"
    /\ focus.pc \in {"idle", "done"}
    /\ focus.calls < MaxCalls
    /\ \E v \in FocusRequests :
          focus' = [focus EXCEPT !.pc = IF CapOpen THEN "autofocus_write" ELSE "done",
                       !.open = CapOpen, !.req = v, !.ops = <<>>, !.result = "none",
                       !.actual = -1, !.raised = FALSE,
                       !.ret = IF CapOpen THEN "none" ELSE "false",
                       !.calls = @ + 1]
    /\ UNCHANGED <<engine, heap, cls, nego>>

\* "self.cap.set(cv2.CAP_PROP_AUTOFOCUS, 0)": the answer is dropped
RF_Autofocus ==
    /\ focus.pc = "autofocus_write"
    /\ \E o \in {"true", "false", "raise"} :
          focus' = IF o = "raise" THEN Caught(focus)
                   ELSE [focus EXCEPT !.pc = "focus_write",
                            !.ops = Append(@, "autofocus_write")]
    /\ UNCHANGED <<engine, heap, cls, nego>>

\* a set_focus that writes the focus again when the driver refused it
AfterFocusWriteRetry(result) == IF result = "true" THEN "settle" ELSE "focus_write"

\* after the focus write comes "time.sleep(0.1)", whatever the answer
AfterFocusWrite(result) == "settle"

\* "result = self.cap.set(cv2.CAP_PROP_FOCUS, focus_value)"
RF_Write ==
    /\ focus.pc = "focus_write"
    /\ \E o \in {"true", "false", "raise"}, clamps \in BOOLEAN :
          focus' = IF o = "raise" THEN Caught(focus)
                   ELSE [focus EXCEPT !.pc = AfterFocusWrite(o),
                            !.ops = Append(@, "focus_write"), !.result = o,
                            !.dev = IF o = "false" THEN @
                                    ELSE IF clamps THEN Clamp(focus.req)
                                    ELSE focus.req]
    /\ UNCHANGED <<engine, heap, cls, nego>>

\* "time.sleep(0.1)"
RF_Settle ==
    /\ focus.pc = "settle"
    /\ focus' = [focus EXCEPT !.pc = "read_back", !.ops = Append(@, "settle")]
    /\ UNCHANGED <<engine, heap, cls, nego>>

\* "actual_focus = self.cap.get(cv2.CAP_PROP_FOCUS)", the log line and
\* "return result"
RF_ReadBack ==
    /\ focus.pc = "read_back"
    /\ \E o \in {"value", "raise"} :
          focus' = IF o = "raise" THEN Caught(focus)
                   ELSE [focus EXCEPT !.pc = "done", !.ops = Append(@, "read_back"),
                            !.actual = focus.dev, !.ret = focus.result]
    /\ UNCHANGED <<engine, heap, cls, nego>>

NextRobustFocus ==
    \/ RF_Connect
    \/ RF_SetFocus
    \/ RF_Autofocus
    \/ RF_Write
    \/ RF_Settle
    \/ RF_ReadBack

SpecRobustFocus == InitRobustFocus /\ [][NextRobustFocus]_vars

(* ----------------------------- color_test.test_color ------------------ *)
(* The frame-collection loop of test_color(). A device is either one whose *)
(* reads may succeed or one whose every read fails; a failed read prints,  *)
(* sleeps 0.1 s and leaves every variable of the function as it was.       *)

\* "while frame_count < 100"
frames_to_test == 100

ReadOutcomes(dev) ==
    IF dev = "dead" THEN {"fail"} ELSE {"fail", "colour", "plain"}

InitColorTest ==
    /\ Constructed("ColorTest")
    /\ nego \in [pc : {"open"}, dev : {"live", "dead"}, frame_count : {0},
                  color_frames : {0}, released : {FALSE}]
    /\ heap = Unused
    /\ cls = Unused
    /\ focus = Unused

\* "cap = cv2.VideoCapture(1, cv2.CAP_MSMF)"; "if not cap.isOpened(): return"
CT_Open ==
    /\ nego.pc = "open"
    /\ \E opened \in BOOLEAN :
          nego' = [nego EXCEPT !.pc = IF opened THEN "loop" ELSE "done"]
    /\ UNCHANGED <<engine, heap, cls, focus>>

\* one pass of "while frame_count < 100": a frame is counted, and the loop
\* is left on the key q; a failed read counts nothing
CT_Read ==
    /\ nego.pc = "loop"
    /\ nego.frame_count < frames_to_test
    /\ \E o \in ReadOutcomes(nego.dev), q \in BOOLEAN :
          nego' = IF o = "fail" THEN nego
                  ELSE [nego EXCEPT !.frame_count = @ + 1,
                           !.color_frames = IF o = "colour" THEN @ + 1 ELSE @,
                           !.pc = IF q THEN "release" ELSE @]
    /\ UNCHANGED <<engine, heap, cls, focus>>

\* the loop condition is false
CT_Exit ==
    /\ nego.pc = "loop"
    /\ ~(nego.frame_count < frames_to_test)
    /\ nego' = [nego EXCEPT !.pc = "release"]
    /\ UNCHANGED <<engine, heap, cls, focus>>

\* "cap.release()" and the report
CT_Release ==
    /\ nego.pc = "release"
    /\ nego' = [nego EXCEPT !.pc = "done", !.released = TRUE]
    /\ UNCHANGED <<engine, heap, cls, focus>>

NextColorTest ==
    \/ CT_Open
    \/ CT_Read
    \/ CT_Exit
    \/ CT_Release

SpecColorTest == InitColorTest /\ [][NextColorTest]_vars

\* the function runs on: each of its steps is taken when it can change
\* the state
SpecColorTestFair ==
    /\ SpecColorTest
    /\ WF_vars(CT_Open) /\ WF_vars(CT_Read) /\ WF_vars(CT_Exit)
    /\ WF_vars(CT_Release)

(* ------------------ the interactive loop of main() -------------------- *)
(* The focus keys of the live feed of arducam_controller.main(). The       *)
(* start value is config.manual_focus, which _load_config takes from the   *)
(* YAML file as it is written there.                                       *)

\* values of focus.manual_focus in a configuration file, the default of
\* CameraConfig among them
ConfiguredFocus == {-15, 0, manual_focus, 255, 270}

\* the built-in max and min of two numbers
max(a, b) == IF a >= b THEN a ELSE b

min(a, b) == IF a <= b THEN a ELSE b

InitKeys ==
    /\ Constructed("Arducam")
    /\ focus \in [pc : {"feed"}, manual_focus : ConfiguredFocus,
                   current_focus : ConfiguredFocus, called : {FALSE},
                   passed : {0}, key : {"none"}]
    /\ focus.current_focus = focus.manual_focus
    /\ heap = Unused
    /\ cls = Unused
    /\ nego = Unused

\* "controller.set_focus(current_focus)" with the new value
KeyPress(k, v) ==
    focus' = [focus EXCEPT !.current_focus = v, !.called = TRUE, !.passed = v,
                 !.key = k]

\* key a: "current_focus = max(0, current_focus - 10)"
KL_Decrease ==
    /\ focus.pc = "feed"
    /\ KeyPress("a", max(0, focus.current_focus - 10))
    /\ UNCHANGED <<engine, heap, cls, nego>>

\* key d: "current_focus = min(255, current_focus + 10)"
KL_Increase ==
    /\ focus.pc = "feed"
    /\ KeyPress("d", min(255, focus.current_focus + 10))
    /\ UNCHANGED <<engine, heap, cls, nego>>

\* key s: "current_focus = 100"
KL_Reset ==
    /\ focus.pc = "feed"
    /\ KeyPress("s", 100)
    /\ UNCHANGED <<engine, heap, cls, nego>>

\* key q: "break"
KL_Quit ==
    /\ focus.pc = "feed"
    /\ focus' = [focus EXCEPT !.pc = "done", !.key = "q"]
    /\ UNCHANGED <<engine, heap, cls, nego>>

NextKeys ==
    \/ KL_Decrease
    \/ KL_Increase
    \/ KL_Reset
    \/ KL_Quit

SpecKeys == InitKeys /\ [][NextKeys]_vars

(* ------------------- device handles across connect() calls ------------ *)
(* connect(), disconnect() and stop() of ArducamController and of          *)
(* RobustArducamController as whole calls, with the handles the controller *)
(* has opened. "self.cap = cv2.VideoCapture(...)" drops the reference to   *)
(* the handle self.cap held; no release() is called on it. When the        *)
(* interpreter finalizes an unreferenced VideoCapture is not fixed by the  *)
(* language, and the capture thread may hold a reference of its own, so    *)
(* a dropped open handle either is closed at once or stays open.           *)
(* nego.orphans counts the handles that are open and no longer in self.cap;*)
(* calls and stops count the calls made.                                   *)

InitHandles ==
    /\ \E c \in {"Arducam", "Robust"} : Constructed(c)
    /\ nego = [pc |-> "idle", attempt |-> 0, orphans |-> 0, calls |-> 0,
               ret |-> "none", by |-> 0, stops |-> 0]
    /\ heap = Unused
    /\ cls = Unused
    /\ focus = Unused

\* the open handles left behind when self.cap = c is rebound: kept tells
\* whether c outlives the rebinding
Orphaned(c, kept) == IF c.obj /\ c.open /\ kept THEN 1 ELSE 0

\* ArducamController.connect() is called
HA_Connect ==
    /\ ctl = "Arducam"
    /\ nego.pc = "idle"
    /\ nego.calls < MaxCalls
    /\ nego' = [nego EXCEPT !.pc = "attempt", !.attempt = 1, !.calls = @ + 1,
                    !.ret = "none", !.by = 0]
    /\ UNCHANGED <<engine, heap, cls, focus>>

\* one attempt of ArducamController.connect(), self.disconnect() included
HA_Attempt ==
    /\ ctl = "Arducam"
    /\ nego.pc = "attempt"
    /\ \E o \in AttemptOutcomes, kept \in BOOLEAN :
          LET r == Attempt(cap, o) IN
          /\ cap' = IF r.next = "disconnect" THEN NoHandle ELSE r.cap
          /\ nego' = [nego EXCEPT
                 !.orphans = IF o \in CtorRaises THEN @ ELSE @ + Orphaned(cap, kept),
                 !.pc = IF r.next = "true" \/ nego.attempt = max_retries
                        THEN "idle" ELSE "attempt",
                 !.attempt = IF r.next = "true" \/ nego.attempt = max_retries
                             THEN @ ELSE @ + 1,
                 !.ret = IF r.next = "true" THEN "true"
                         ELSE IF nego.attempt = max_retries THEN "false" ELSE @,
                 !.by = IF r.next = "true" THEN nego.attempt ELSE @]
    /\ UNCHANGED <<ctl, is_running, current_frame, frame_lock, capture_thread,
                   force_color, thr, caller, reader, devseq, devfmt, hist>>
    /\ UNCHANGED <<heap, cls, focus>>

\* ArducamController.disconnect(): release() and "self.cap = None"
HA_Disconnect ==
    /\ ctl = "Arducam"
    /\ nego.pc = "idle"
    /\ nego.stops < MaxCalls
    /\ cap' = NoHandle
    /\ nego' = [nego EXCEPT !.stops = @ + 1]
    /\ UNCHANGED <<ctl, is_running, current_frame, frame_lock, capture_thread,
                   force_color, thr, caller, reader, devseq, devfmt, hist>>
    /\ UNCHANGED <<heap, cls, focus>>

\* RobustArducamController.connect(): the first strategy rebinds self.cap
HR_Connect ==
    /\ ctl = "Robust"
    /\ nego.pc = "idle"
    /\ nego.calls < MaxCalls
    /\ \E outs \in [1..3 -> StrategyOutcomes], kept \in BOOLEAN :
          LET r == StrategiesFrom(cap, outs, 1, 3) IN
          /\ cap' = r.cap
          /\ nego' = [nego EXCEPT !.calls = @ + 1,
                          !.orphans = @ + Orphaned(cap, kept),
                          !.ret = IF r.ret THEN "true" ELSE "false",
                          !.by = r.by]
    /\ UNCHANGED <<ctl, is_running, current_frame, frame_lock, capture_thread,
                   force_color, thr, caller, reader, devseq, devfmt, hist>>
    /\ UNCHANGED <<heap, cls, focus>>

\* RobustArducamController.stop(): "if self.cap: self.cap.release()"
HR_Stop ==
    /\ ctl = "Robust"
    /\ nego.pc = "idle"
    /\ nego.stops < MaxCalls
    /\ cap.rel < MaxReleases
    /\ cap' = IF cap.obj THEN Released(cap) ELSE cap
    /\ nego' = [nego EXCEPT !.stops = @ + 1]
    /\ UNCHANGED <<ctl, is_running, current_frame, frame_lock, capture_thread,
                   force_color, thr, caller, reader, devseq, devfmt, hist>>
    /\ UNCHANGED <<heap, cls, focus>>

\* an unreferenced handle is finalized: its destructor closes the device
HL_Finalize ==
    /\ nego.orphans > 0
    /\ nego' = [nego EXCEPT !.orphans = @ - 1]
    /\ UNCHANGED <<engine, heap, cls, focus>>

NextHandles ==
    \/ HA_Connect
    \/ HA_Attempt
    \/ HA_Disconnect
    \/ HR_Connect
    \/ HR_Stop
    \/ HL_Finalize

SpecHandles == InitHandles /\ [][NextHandles]_vars

(* ============================== properties ============================= *)
\* the controller object's fields
fields == <<cap, is_running, current_frame, capture_thread>>

\* a get_frame() call returns in this step
GetFrameReturns == reader.pc = "locked" /\ reader'.pc = "idle"

\* C1: latest-wins.  Whenever get_frame() returns after at least one publish,
\* it returns (True, f) with f the frame of the latest publish, whatever was
\* published before it and whether or not it was ever read.
C1_LatestWins ==
    [][(GetFrameReturns /\ hist.published # NoFrame)
          => (reader'.present /\ reader'.frame = hist.published)]_vars

\* a second frame was published over the first and get_frame() returned it
C1_Witness ==
    /\ reader.pc = "idle"
    /\ reader.present
    /\ hist.published.seq >= 2
    /\ reader.frame = hist.published

\* C2: before the first publish every get_frame() call returns (False, None),
\* and no step of the call changes a field of the controller.
C2_AbsentBeforeFirstPublish ==
    [][(reader' # reader /\ hist.published = NoFrame)
          => /\ UNCHANGED fields
             /\ GetFrameReturns => (~reader'.present /\ reader'.frame = NoFrame)]_vars

\* get_frame() is inside its critical section while the capture loop holds
\* its first frame, not yet published
C2_Witness ==
    /\ ctl = "Arducam"
    /\ reader.pc = "locked"
    /\ hist.published = NoFrame
    /\ \E t \in Threads : thr[t].pc = "publish"

\* C3: at most one thread executes _capture_loop of an ArducamController.
C3_SingleCaptureLoop ==
    ctl = "Arducam" => Cardinality({t \in Threads : Alive(t)}) <= 1

\* C4: when stop() / disconnect() comes to cap.release(), the capture thread
\* has exited.
C4_ReleaseAfterThreadExit ==
    (caller.pc = "release" /\ caller.op \in {"stop", "disconnect"} /\ cap.obj)
        => NoLoopAlive

\* C5: once the loop of a RobustArducamController has ended at the failure
\* ceiling, its device handle has been released exactly once.
C5_FaultReleasesOnce ==
    (ctl = "Robust" /\ hist.ended = "faulted") => cap.rel = 1

\* C6: once the loop has ended at the failure ceiling, is_running no longer
\* reports Running.
C6_FaultObservable ==
    (ctl = "Robust" /\ hist.ended = "faulted" /\ NoLoopAlive) => ~is_running

\* C7: after a capture loop has ended in Faulted, no capture loop runs on the
\* handle of that session, which connect() has not replaced.
C7_NoRestartWithoutConnect ==
    (ctl = "Robust" /\ hist.ended = "faulted" /\ CapOpen) => NoLoopAlive

\* C8: a stop() that follows a stop() that has returned issues no release on
\* the device handle: the handle stays as the first stop() left it.
C8_StopIdempotent ==
    [][(ctl = "Robust" /\ hist.stopped /\ caller.pc = "release") => cap' = cap]_vars

\* C9: the frames one reader receives from get_frame() are in capture order.
C9_ReaderOrder ==
    [][(ctl = "Arducam" /\ reader.present /\ reader'.present)
          => reader'.frame.seq >= reader.frame.seq]_vars

\* C10: frame_lock is held exactly by a capture thread between entering
\* "with self.frame_lock" and leaving it after the store, or by get_frame()
\* between entering and leaving its copy-out: never by a thread that is
\* reading the device, sleeping or waiting, and never after the section.
C10_LockOnlyAroundCopy ==
    /\ \A t \in Threads : (frame_lock = t) <=> (thr[t].pc = "store")
    /\ (frame_lock = Reader) <=> (reader.pc = "locked")
    /\ frame_lock \in Threads \cup {Unlocked, Reader}

\* get_frame() is inside its critical section while a device read of a
\* TrueColorArducamController is in flight, after a frame was published
C10_Witness ==
    /\ ctl = "TrueColor"
    /\ reader.pc = "locked"
    /\ current_frame # NoFrame
    /\ \E t \in Threads : thr[t].pc = "reading"

\* no reference get_frame() returned reaches the array of current_frame, the
\* array read from the device, or the array another caller holds
Distinct(h) ==
    \A r \in Readers :
       h.ret[r] # None =>
          h.ret[r] \notin {h.cur, h.frame} \cup {h.ret[q] : q \in Readers \ {r}}

\* C11: readers never alias the buffer.  After every step the frame each
\* get_frame() caller holds is an array of its own; a caller drawing into its
\* frame changes neither current_frame nor the frame of another caller; a
\* publish changes no frame already returned; and get_frame() returns the
\* published content, free of any caller's drawing.
C11_NoAlias ==
    [][/\ Distinct(heap')
       /\ heap'.op = "draw" =>
             /\ Content(heap', heap'.cur) = Content(heap, heap.cur)
             /\ \A r \in Readers \ {heap'.who} :
                   Content(heap', heap'.ret[r]) = Content(heap, heap.ret[r])
       /\ heap'.op = "store" =>
             \A r \in Readers : Content(heap', heap'.ret[r]) = Content(heap, heap.ret[r])
       /\ (heap'.op = "get_frame" /\ heap.cur # None) =>
             /\ Content(heap', heap'.ret[heap'.who]) = Content(heap, heap.cur)
             /\ ~Content(heap', heap'.ret[heap'.who]).drawn]_vars

\* a caller has drawn into frame 1, a later frame was published over it and
\* another caller has received that one
C11_Witness ==
    /\ ctl = "Robust"
    /\ heap # Unused
    /\ \E r, q \in Readers :
          /\ Content(heap, heap.ret[r]) = [seq |-> 1, drawn |-> TRUE]
          /\ Content(heap, heap.cur).seq = 2
          /\ Content(heap, heap.ret[q]) = [seq |-> 2, drawn |-> FALSE]

\* |a - b| of two component values
AbsDiff(a, b) == IF a >= b THEN a - b ELSE b - a

\* the three pairwise channel differences of a pixel are within the tolerance
WithinTolerance(px, tol) ==
    /\ AbsDiff(px[3], px[2]) <= tol
    /\ AbsDiff(px[3], px[1]) <= tol
    /\ AbsDiff(px[2], px[1]) <= tol

\* C19: a 3-channel frame in which every sampled pixel has its three
\* pairwise channel differences at or below 15 is never classified true
\* colour by _has_real_color.
C19_NearGrayNeverColor ==
    (/\ cls.real # "none"
     /\ cls.frame.chan = 3
     /\ ~GridRaises(cls.frame)
     /\ \A p \in GridPoints(cls.frame) :
           WithinTolerance(PixelAt(cls.frame, p[1], p[2]), 15))
        => cls.real # "true"

\* every component of the frame is 0, or every component is 255
Blank(f) == f.top = f.bot /\ f.top \in {<<0, 0, 0>>, <<255, 255, 255>>}

\* C20: for an all-black or all-white frame of any channel count and any
\* size, none of _has_real_color, _check_color, _has_true_color returns True.
C20_BlankNeverColor ==
    Blank(cls.frame) =>
       (cls.real # "true" /\ cls.check # "true" /\ cls.native # "true")

\* the three tests have answered False on an all-white 3-channel frame that
\* the sampling grid accepts
C20_Witness ==
    /\ cls # Unused
    /\ cls.pc = "done"
    /\ cls.frame.chan = 3
    /\ cls.frame.top = <<255, 255, 255>>
    /\ Blank(cls.frame)
    /\ ~GridRaises(cls.frame)
    /\ cls.real = "false" /\ cls.check = "false" /\ cls.native = "false"

\* connect() is at its decision on strategy nego.k, the five reads made
Deciding == ctl = "NativeColor" /\ nego.pc = "probe" /\ nego.i = ProbeReads

\* the strategy under decision is rejected in this step: its handle is
\* released and the next strategy, if there is one, is tried
RejectedNow ==
    /\ nego'.log[nego.k].st = "rejected"
    /\ cap' = Released(cap)
    /\ IF nego.k < NativeStrategies
       THEN nego'.pc = "open" /\ nego'.k = nego.k + 1
       ELSE nego'.pc = "done" /\ nego'.ret = "false"

\* C12: if the strategies before c failed to open and strategy c opened and
\* gave a majority of true-colour probe frames, connect() has succeeded on c:
\* it returned True, current_mode names c, self.cap is the open handle made
\* for c, and no strategy after c was opened or probed.
C12_FirstMajorityWins ==
    \A c \in Candidates :
       (/\ ctl = "NativeColor"
        /\ \A j \in 1..(c - 1) : nego.log[j].st = "noopen"
        /\ nego.log[c].st \in {"accepted", "rejected"}
        /\ 2 * nego.log[c].color > ProbeReads)
          => /\ nego.pc = "done" /\ nego.ret = "true"
             /\ nego.current_mode = c
             /\ nego.capfor = c /\ CapOpen /\ cap.rel = 0
             /\ \A j \in (c + 1)..NativeStrategies : nego.log[j] = Untried

\* two strategies failed to open and the third was accepted
C12_Witness ==
    /\ ctl = "NativeColor"
    /\ nego.pc = "done"
    /\ nego.log[1].st = "noopen" /\ nego.log[2].st = "noopen"
    /\ nego.log[3].st = "accepted"
    /\ nego.current_mode = 3

\* C14 as stated: a strategy is accepted if and only if its true-colour
\* probe frames are strictly more than half of the probe frames that were
\* read successfully; with no frame read it is rejected, released, and the
\* next strategy is tried.
C14_MajorityOfReadFrames ==
    [][Deciding =>
          /\ (nego'.log[nego.k].st = "accepted") <=> (2 * nego.color_frames > nego.reads)
          /\ nego.reads = 0 => RejectedNow]_vars

\* C14 amended: a strategy is accepted if and only if its true-colour probe
\* frames are strictly more than half of its five probe reads, failed reads
\* included; otherwise, and so with no frame read, it is rejected, released,
\* and the next strategy is tried.
C14_MajorityOfProbeReads ==
    [][Deciding =>
          /\ (nego'.log[nego.k].st = "accepted") <=> (2 * nego.color_frames > ProbeReads)
          /\ (nego'.log[nego.k].st = "accepted") => (nego'.ret = "true" /\ cap' = cap)
          /\ (2 * nego.color_frames <= ProbeReads) => RejectedNow
          /\ nego.reads = 0 => RejectedNow]_vars

\* a strategy with two frames read, both true colour, was rejected and
\* released, and the next strategy is being opened
C14_Witness ==
    /\ ctl = "NativeColor"
    /\ nego.pc = "open"
    /\ nego.k = 2
    /\ nego.log[1] = [st |-> "rejected", color |-> 2]
    /\ cap.rel = 1 /\ ~cap.open

\* the test frame of strategy c was read and is not a colour frame
ReadNotColor(c) ==
    /\ nego.log[c].st \in {"accepted", "rejected"}
    /\ nego.log[c].frame # NoProbe
    /\ ~ColorShape(nego.log[c].frame)

(* C13: ColorArducamController.connect turns down a strategy whose test    *)
(* frame is read but is not colour and goes on to the next one: no         *)
(* connect() ends holding a strategy whose test frame was not colour, and  *)
(* a call that has come to the second strategy after such a first test     *)
(* frame never opens the third when the second test frame is colour.       *)
C13_NonColorRejected ==
    ctl = "Color" =>
        /\ \A c \in 1..ColorStrategies : ReadNotColor(c) => nego.log[c].st = "rejected"
        /\ (ReadNotColor(1) /\ nego.log[2].st = "accepted") =>
               (nego.ret = "true" /\ nego.capfor = 2 /\ CapOpen
                /\ nego.log[3].st = "untried")

(* C15: when ArducamColorUnlock.connect returns False, every device       *)
(* handle it opened has been released: neither self.cap nor the handle of  *)
(* the formats is open.                                                    *)
C15_FalseLeavesNothingOpen ==
    (ctl = "ColorUnlock" /\ nego.pc = "done" /\ nego.ret = "false") =>
        (~CapOpen /\ ~(nego.first.obj /\ nego.first.open))

(* C16: ArducamController.connect returns a boolean and lets no exception *)
(* out: a finished call has answered True or False, False exactly when no  *)
(* attempt had an opened device that _configure_camera accepted, and True  *)
(* with that device open in self.cap.                                      *)
C16_ConnectAnswers ==
    (ctl = "Arducam" /\ nego.pc = "done") =>
        /\ nego.ret \in {"true", "false"}
        /\ (nego.ret = "false") <=> ~nego.configured
        /\ (nego.ret = "true") => CapOpen

\* every attempt of a call failed, the last one in _configure_camera
C16_Witness ==
    /\ ctl = "Arducam" /\ nego.pc = "done" /\ nego.ret = "false"
    /\ nego.attempt = max_retries /\ nego.opens < Backends /\ ~nego.configured

(* C17: ArducamController.connect is attempt-bounded: it never makes more  *)
(* than max_retries attempts, never opens the device more than three times *)
(* in one attempt, and a call that has begun comes to its return.          *)
C17_AttemptBounded ==
    /\ [](ctl = "Arducam" =>
            /\ nego.attempt <= max_retries
            /\ nego.opens <= Backends
            /\ nego.total <= max_retries * Backends)
    /\ ((ctl = "Arducam" /\ nego.pc \in {"backend", "check"}) ~> (nego.pc = "done"))

\* a call that used every open of every attempt and returned False
C17_Witness ==
    /\ ctl = "Arducam" /\ nego.pc = "done" /\ nego.ret = "false"
    /\ nego.attempt = max_retries /\ nego.total = max_retries * Backends

(* C18: ArducamController.set_focus answers True when the value read back *)
(* from the device equals the requested one, and False when the device     *)
(* clamped the request to a different value, which stays applied.          *)
C18_FocusVerified ==
    (ctl = "Arducam" /\ focus.pc = "done" /\ focus.result = "true") =>
        /\ focus.dev = focus.actual
        /\ (focus.ret = "true") <=> (focus.actual = focus.req)

(* C21: for a frame that does not have exactly 3 channels, of any content *)
(* and any size, _has_real_color, _check_color and _has_true_color answer  *)
(* False without raising (no pixel is sampled, so a frame too small for    *)
(* the grid does not raise either) and _is_grayscale_disguised_as_color    *)
(* answers False.                                                          *)
C21_NotThreeChannelsIsGrayscale ==
    (cls # Unused /\ cls.frame.chan # 3) =>
        /\ cls.real \in {"none", "false"}
        /\ cls.check \in {"none", "false"}
        /\ cls.native \in {"none", "false"}
        /\ cls.disguised \in {"none", "false"}

\* the four tests have answered on a 2-D frame too small for the sampling
\* grid, whose content has equal components above and coloured ones below
C21_Witness ==
    /\ cls # Unused
    /\ cls.pc = "done"
    /\ cls.frame.chan = 1
    /\ GridRaises(cls.frame)
    /\ cls.frame.top = <<100, 100, 100>>
    /\ cls.frame.bot = <<0, 0, 255>>
    /\ cls.real = "false" /\ cls.check = "false" /\ cls.native = "false"
    /\ cls.disguised = "false"

(* C22: for a 3-channel frame whose width or height is below the sampling  *)
(* grid, _has_real_color and _check_color answer without raising, and      *)
(* answer False when the grid has no point.                                *)
C22_SmallFrameDegrades ==
    (cls # Unused /\ cls.frame.chan = 3) =>
        /\ cls.real # "raise"
        /\ cls.check # "raise"
        /\ (IF GridRaises(cls.frame) THEN TRUE ELSE GridPoints(cls.frame) = {}) =>
               (cls.real \in {"none", "false"} /\ cls.check \in {"none", "false"})

(* C23: in RobustArducamController._capture_loop a frame that is read     *)
(* resets the failure streak, and the loop ends at the failure ceiling     *)
(* only when max_failures iterations in a row have failed since the last   *)
(* frame was read; a loop whose runs of failures stay shorter keeps        *)
(* running until it is stopped or loses the device.                        *)
C23_FaultOnlyAfterTenInARow ==
    [][ctl = "Robust" =>
          \A t \in Threads :
             /\ (thr[t].pc = "reading" /\ thr'[t].pc = "publish") => thr'[t].fails = 0
             /\ (Alive(t) /\ ~Alive(t)' /\ hist'.ended = "faulted")
                   => thr[t].run + 1 >= max_failures]_vars

\* a loop still running after nine failures that follow the last frame the
\* device delivers
C23_Witness ==
    /\ ctl = "Robust"
    /\ devseq = MaxFrames
    /\ hist.published.seq = MaxFrames
    /\ \E t \in Threads : thr[t].pc = "loop" /\ thr[t].fails = max_failures - 1
    /\ is_running

(* C24: _capture_loop of RobustArducamController and of                    *)
(* TrueColorArducamController runs only until stop() is signalled or the   *)
(* failure count reaches the ceiling, whatever the failures are: a running *)
(* loop never has consecutive_failures at max_failures or above when it    *)
(* comes back to the head of the loop.                                     *)
C24_CeilingStopsLoop ==
    ctl \in {"Robust", "TrueColor"} =>
        \A t \in Threads : thr[t].pc = "loop" => thr[t].fails < max_failures

(* C25: ArducamColorUnlock._test_color_output returns True only if        *)
(* strictly more than half of the frames its 10 reads delivered are real   *)
(* colour; it returns False when exactly half are, or when none was read.  *)
C25_StrictMajorityOfRead ==
    (ctl = "ColorUnlock" /\ nego.tested.ans = "true") =>
        2 * nego.tested.color > nego.tested.reads

(* C25 as the code has it: _test_color_output returns True exactly when at *)
(* least half of its 10 reads (5 or more, a failed read counting as not    *)
(* colour) delivered a real-colour frame; so it returns True when all 10   *)
(* frames are read and exactly 5 are colour, and False when none is read.  *)
C25_HalfOfTestReads ==
    (ctl = "ColorUnlock" /\ nego.tested.ans # "none") =>
        /\ (nego.tested.ans = "true") <=> (2 * nego.tested.color >= test_frames)
        /\ (nego.tested.reads = 0) => (nego.tested.ans = "false")

\* a test that returned True with all 10 frames read and exactly 5 colour
C25_Witness ==
    /\ ctl = "ColorUnlock"
    /\ nego.tested.ans = "true"
    /\ nego.tested.reads = test_frames
    /\ 2 * nego.tested.color = test_frames

C28_DelayBetweenAttempts ==
    ctl = "Arducam" =>
        /\ nego.pc \in {"backend", "check"} => nego.delays = nego.attempt - 1
        /\ (nego.pc = "done" /\ nego.ret = "false") => nego.delays = max_retries - 1

\* the order the settings of a candidate are to be applied in
SettingsOrder == <<"fourcc", "width", "height", "fps", "buffersize", "settle">>

\* ops without the short pause after the pixel format
NotPause(op) == op # "pause"

(* C27: for every candidate NativeColorArducamController.connect opens,    *)
(* the operations on the new handle are, in this order: pixel format,      *)
(* width, height, fps, buffer depth, the settle wait, and then the probe   *)
(* reads; no probe frame is read before the settings and the wait.         *)
C27_SettingsBeforeProbe ==
    ctl = "NativeColor" =>
        LET ops == SelectSeq(nego.ops, NotPause) IN
        \A j \in 1..Len(ops) :
            IF j <= Len(SettingsOrder) THEN ops[j] = SettingsOrder[j]
            ELSE ops[j] = "read"

\* the fifth candidate has been configured and probed with all five reads
C27_Witness ==
    /\ ctl = "NativeColor"
    /\ nego.k = 5 /\ nego.pc = "probe" /\ nego.i = ProbeReads
    /\ Len(nego.ops) = Len(Settings) + ProbeReads

(* C30: TrueColorArducamController tints a 3-channel frame only after a   *)
(* verdict of grayscale or disguised grayscale, on the probe frame or on   *)
(* the frame itself: on every connect path a session whose device delivers *)
(* true-colour frames publishes them as they are.                          *)
C30_TintOnlyOnVerdict ==
    (ctl = "TrueColor" /\ devfmt = "color") => hist.published.fmt # "tinted"

(* C29: in _has_real_color a sampled pixel counts as colourful only if    *)
(* its largest pairwise channel difference is above 15 and its component   *)
(* sum r+g+b, as a number between 0 and 765, lies strictly between 30 and  *)
(* 700: a near-black or near-white pixel is never counted.                 *)
C29_ColourfulPixel ==
    (cls.pc = "sampled" /\ cls.counted = "true") =>
        LET b == cls.px[1]
            g == cls.px[2]
            r == cls.px[3]
        IN  /\ Max3(AbsDiff(r, g), AbsDiff(r, b), AbsDiff(g, b)) > 15
            /\ 30 < r + g + b
            /\ r + g + b < 700

C32_FocusFailureNotFatal ==
    (ctl = "Arducam" /\ focus.pc = "done") =>
        ((focus.result = "true") <=>
            (focus.d.handle.obj /\ focus.d.handle.open /\ focus.d.frame_ok))

\* True was returned although both writes failed, autofocus reads back as
\* enabled and the focus reads back different from manual_focus
C32_Witness ==
    /\ ctl = "Arducam" /\ focus.pc = "done" /\ focus.result = "true"
    /\ focus.warnings = {"af_write", "af_status", "focus_write"}
    /\ focus.d.current_focus # manual_focus

(* C33 as stated: every RobustArducamController.set_focus call on an open *)
(* device performs exactly one autofocus-disable write, one focus write,   *)
(* a settle wait and one focus read-back, in this order.                   *)
C33_ExactlyOneOfEach ==
    (ctl = "Robust" /\ focus.pc = "done" /\ focus.open) => focus.ops = FocusSteps

(* C33, amended: the operations a set_focus call on an open device         *)
(* performs are always a prefix of autofocus-disable write, focus write,   *)
(* settle wait, focus read-back, so the focus write is never repeated,     *)
(* whatever the write result or the read-back value; the call performs all *)
(* four exactly once unless a device call raises, and then it stops at     *)
(* that call and returns False.                                            *)
C33_NoRepeatedWrite ==
    (ctl = "Robust" /\ focus.pc # "idle" /\ focus.open) =>
        /\ IsPrefix(focus.ops, FocusSteps)
        /\ (focus.pc = "done" /\ ~focus.raised) =>
              (focus.ops = FocusSteps /\ focus.ret = focus.result)
        /\ (focus.pc = "done" /\ focus.raised) =>
              (focus.ops # FocusSteps /\ focus.ret = "false")

\* a call whose focus write the driver refused and whose read-back is not
\* the requested value has run through once
C33_Witness ==
    /\ ctl = "Robust" /\ focus.pc = "done" /\ focus.open /\ ~focus.raised
    /\ focus.result = "false" /\ focus.actual # focus.req
    /\ focus.ops = FocusSteps

(* C34: the frame-collection loop of color_test.test_color terminates    *)
(* for every device behaviour, also for a device whose every read fails.   *)
C34_CollectionTerminates ==
    (ctl = "ColorTest") ~> (ctl = "ColorTest" /\ nego.pc = "done")

(* C35: in the interactive loop of ArducamController the focus value     *)
(* passed to set_focus is in 0..255 after any sequence of decrease,        *)
(* increase and reset keys, starting from the configured manual_focus.     *)
C35_FocusInRange ==
    (ctl = "Arducam" /\ focus.pc \in {"feed", "done"} /\ focus.called) =>
        (0 <= focus.passed /\ focus.passed <= 255)

(* C36: the result of ArducamController.connect agrees with the device:  *)
(* it is True if and only if at the return self.cap is an open handle      *)
(* that _configure_camera read its test frame from, and after False        *)
(* self.cap is not an open handle.                                         *)
C36_ResultAgreesWithDevice ==
    (ctl = "Arducam" /\ nego.pc = "done") =>
        /\ (nego.ret = "true") <=> (CapOpen /\ nego.configured)
        /\ (nego.ret = "false") => (~CapOpen /\ (cap.obj => cap.rel >= 1))

\* every attempt opened the device with its first backend and failed in
\* _configure_camera: False, and the handle is gone
C36_Witness ==
    /\ ctl = "Arducam" /\ nego.pc = "done" /\ nego.ret = "false"
    /\ nego.total = max_retries /\ nego.opens = 1 /\ cap = NoHandle

(* C37: in ArducamController is_running is True only while a capture     *)
(* thread is alive, so that a start_capture() that answers True leaves a   *)
(* thread running _capture_loop, also after a loop has ended by itself     *)
(* because the camera was no longer open.                                  *)
C37_RunningMeansAlive ==
    (ctl = "Arducam" /\ is_running) => \E t \in Threads : Alive(t)

C39_NoFrameOfEarlierSession ==
    [][(ctl = "Arducam" /\ GetFrameReturns /\ is_running /\ CapOpen /\ reader'.present)
          => reader'.frame.seq > hist.cut]_vars

(* C40: in each attempt ArducamController.connect tries the backends in  *)
(* the order DSHOW, MSMF, ANY when prefer_dshow is true and MSMF, DSHOW,   *)
(* ANY otherwise; the first backend that opens is the one whose handle is  *)
(* configured and used, and no later backend is opened in that attempt.    *)
C40_BackendOrder ==
    (ctl = "Arducam" /\ nego.pc \in {"backend", "check", "done"}) =>
        /\ IsPrefix(nego.tried,
                    IF nego.prefer_dshow THEN <<"DSHOW", "MSMF", "ANY">>
                    ELSE <<"MSMF", "DSHOW", "ANY">>)
        /\ nego.pc = "backend" => (nego.used = "none" /\ Len(nego.tried) = nego.b - 1)
        /\ nego.used # "none" =>
              /\ nego.used = nego.tried[Len(nego.tried)]
              /\ nego.pc = "check" => cap = Handle(TRUE, 0)
              /\ nego.ret = "true" => cap = Handle(TRUE, 0)

\* without prefer_dshow the first backend failed and the second, DSHOW,
\* opened and was configured: connect() returned True with it
C40_Witness ==
    /\ ctl = "Arducam" /\ nego.pc = "done" /\ nego.ret = "true"
    /\ ~nego.prefer_dshow
    /\ nego.tried = <<"MSMF", "DSHOW">> /\ nego.used = "DSHOW"

====
